---- MODULE Spec2Model ----
(***************************************************************************)
(* A model of the RISC-V interpreter: the CLINT timer (timer.rs), the bus  *)
(* (bus.rs) and the hart (cpu.rs).                                         *)
(*                                                                         *)
(* Machine words are little-endian sequences of bytes: a u32 is a sequence *)
(* of 4 bytes, a u64 of 8, a u16 of 2 (element 1 is the least significant  *)
(* byte).  TLC's integers are 32-bit signed, so a u32 cannot be one TLC    *)
(* integer; every arithmetic operator below works bytewise and wraps at    *)
(* the width of its operands.                                              *)
(***************************************************************************)
EXTENDS Integers, Sequences, FiniteSets, TLC

VARIABLES
    cpu,              \* the Cpu's own fields (cpu.rs 14-33), without the bus
    bus,              \* the Bus: ram and clint (bus.rs 6-9, timer.rs 4-8)
    overflow_checks,  \* build profile: TRUE when `+` and shifts panic on overflow
    res,              \* outcome of the last operation: "ok", "err" or "panic"
    last,             \* the last operation, its arguments and what it returned
    inp,              \* the inputs drawn for this run
    cnt               \* counters of the run (ticks taken, writes made, ...)

vars == <<cpu, bus, overflow_checks, res, last, inp, cnt>>

---------------------------------------------------------------------------
(* Bytes and words                                                         *)

Byte == 0..255

RECURSIVE And8(_, _)
And8(a, b) == IF a = 0 \/ b = 0 THEN 0
              ELSE (a % 2) * (b % 2) + 2 * And8(a \div 2, b \div 2)

Or8(a, b) == a + b - And8(a, b)

Xor8(a, b) == a + b - 2 * And8(a, b)

Zero(n) == [i \in 1..n |-> 0]

\* a number below 2^31 as a word of n bytes
Nat2W(x, n) == [i \in 1..n |-> IF i <= 4 THEN (x \div (256 ^ (i - 1))) % 256 ELSE 0]

\* the u32 whose upper half is hi and lower half is lo
U32(hi, lo) == <<lo % 256, lo \div 256, hi % 256, hi \div 256>>

BAnd(a, b) == [i \in 1..Len(a) |-> And8(a[i], b[i])]
BOr(a, b)  == [i \in 1..Len(a) |-> Or8(a[i], b[i])]
BXor(a, b) == [i \in 1..Len(a) |-> Xor8(a[i], b[i])]
BNot(a)    == [i \in 1..Len(a) |-> 255 - a[i]]

\* carry into byte i of a + b + c0
RECURSIVE CarryIn(_, _, _, _)
CarryIn(a, b, c0, i) ==
    IF i = 1 THEN c0
    ELSE (a[i - 1] + b[i - 1] + CarryIn(a, b, c0, i - 1)) \div 256

\* wrapping_add
WAdd(a, b) == [i \in 1..Len(a) |-> (a[i] + b[i] + CarryIn(a, b, 0, i)) % 256]

\* wrapping_sub: a + ~b + 1
WSub(a, b) == [i \in 1..Len(a) |-> (a[i] + (255 - b[i]) + CarryIn(a, BNot(b), 1, i)) % 256]

\* unsigned a < b
RECURSIVE ULtFrom(_, _, _)
ULtFrom(a, b, i) ==
    IF i = 0 THEN FALSE
    ELSE IF a[i] # b[i] THEN a[i] < b[i]
    ELSE ULtFrom(a, b, i - 1)

ULt(a, b) == ULtFrom(a, b, Len(a))
ULe(a, b) == ~ULt(b, a)
UGe(a, b) == ~ULt(a, b)

\* a in lo..=hi, as the range patterns of a match
InRange(a, lo, hi) == ULe(lo, a) /\ ULe(a, hi)

\* `as` to a wider unsigned type
ZExt(a, n) == [i \in 1..n |-> IF i <= Len(a) THEN a[i] ELSE 0]

\* `as` to a narrower type
Trunc(a, n) == [i \in 1..n |-> a[i]]

\* x << (k * 8) and x >> (k * 8) at the width of x, for k below the width
ShlLanes(x, k) == [i \in 1..Len(x) |-> IF i > k THEN x[i - k] ELSE 0]
ShrLanes(x, k) == [i \in 1..Len(x) |-> IF i + k <= Len(x) THEN x[i + k] ELSE 0]

\* a word below 2^16 as a number
Low16(a) == a[1] + 256 * a[2]

\* bit i of a word (bit 0 is the least significant)
BitAt(w, i) == (w[(i \div 8) + 1] \div (2 ^ (i % 8))) % 2

\* (w >> lo) & (2^n - 1) as a number, for n <= 16
RECURSIVE Field(_, _, _)
Field(w, lo, n) == IF n = 0 THEN 0 ELSE BitAt(w, lo) + 2 * Field(w, lo + 1, n - 1)

\* the word of n bytes whose bit i is f(i)
RECURSIVE ByteOf(_, _, _)
ByteOf(f(_), base, k) == IF k = 8 THEN 0 ELSE f(base + k) + 2 * ByteOf(f, base, k + 1)

FromBits(f(_), n) == [i \in 1..n |-> ByteOf(f, 8 * (i - 1), 0)]

\* the sign bit
Neg(w) == w[Len(w)] >= 128

\* `as` from a signed type to a wider type
SExt(a, n) == [i \in 1..n |-> IF i <= Len(a) THEN a[i] ELSE IF Neg(a) THEN 255 ELSE 0]

\* signed a < b
SLt(a, b) == IF Neg(a) # Neg(b) THEN Neg(a) ELSE ULt(a, b)

\* w << s, w >> s (logical) and w >> s (arithmetic) for 0 <= s < width
Shl(w, s) ==
    LET bit(i) == IF i >= s THEN BitAt(w, i - s) ELSE 0
    IN  FromBits(bit, Len(w))

Shr(w, s) ==
    LET bit(i) == IF i + s < 8 * Len(w) THEN BitAt(w, i + s) ELSE 0
    IN  FromBits(bit, Len(w))

Sar(w, s) ==
    LET bit(i) == IF i + s < 8 * Len(w) THEN BitAt(w, i + s) ELSE BitAt(w, 8 * Len(w) - 1)
    IN  FromBits(bit, Len(w))

\* wrapping_neg
WNeg(a) == WSub(Zero(Len(a)), a)

\* wrapping_mul: column k of the schoolbook product, carry included
RECURSIVE MulColumn(_, _, _)
MulColumn(a, b, k) ==
    LET RECURSIVE Terms(_)
        Terms(i) == IF i > k THEN 0 ELSE a[i + 1] * b[k - i + 1] + Terms(i + 1)
    IN  Terms(0) + (IF k = 0 THEN 0 ELSE MulColumn(a, b, k - 1) \div 256)

WMul(a, b) == [i \in 1..Len(a) |-> MulColumn(a, b, i - 1) % 256]

\* unsigned division of a by b # 0, a byte of the quotient at a time from the
\* top (long division in base 256): [q, r]
RECURSIVE UDivStep(_, _, _, _, _)
UDivStep(a, b, i, q, r) ==
    IF i = 0 THEN [q |-> q, r |-> Trunc(r, Len(a))]
    ELSE LET r1 == [ShlLanes(r, 1) EXCEPT ![1] = a[i]]
             d  == CHOOSE x \in 0..255 :
                       /\ ULe(WMul(Nat2W(x, Len(r)), b), r1)
                       /\ ULt(r1, WMul(Nat2W(x + 1, Len(r)), b))
         IN  UDivStep(a, b, i - 1, [q EXCEPT ![i] = d], WSub(r1, WMul(Nat2W(d, Len(r)), b)))

UDivMod(a, b) ==
    UDivStep(a, ZExt(b, 2 * Len(a)), Len(a), Zero(Len(a)), Zero(2 * Len(a)))

\* signed division truncating toward zero, and its remainder, wrapping on
\* MIN / -1 (wrapping_div, wrapping_rem), for b # 0
SDiv(a, b) ==
    LET ua == IF Neg(a) THEN WNeg(a) ELSE a
        ub == IF Neg(b) THEN WNeg(b) ELSE b
        q  == UDivMod(ua, ub).q
    IN  IF Neg(a) # Neg(b) THEN WNeg(q) ELSE q

SRem(a, b) ==
    LET ua == IF Neg(a) THEN WNeg(a) ELSE a
        ub == IF Neg(b) THEN WNeg(b) ELSE b
        r  == UDivMod(ua, ub).r
    IN  IF Neg(a) THEN WNeg(r) ELSE r

---------------------------------------------------------------------------
(* utils.rs                                                                *)

\* (src & !(0xFF << offset * 8)) | (val << offset * 8)
\* apply_byte that ORs the byte in without masking the lane out first
apply_byte_or(src, val, offset) == BOr(src, ShlLanes(ZExt(<<val>>, Len(src)), offset))

apply_byte(src, val, offset) ==
    LET n    == Len(src)
        mask == ShlLanes(ZExt(<<255>>, n), offset)
    IN  BOr(BAnd(src, BNot(mask)), ShlLanes(ZExt(<<val>>, n), offset))

---------------------------------------------------------------------------
(* timer.rs: the CLINT                                                     *)

MSIP_LO      == U32(0, 0)
MSIP_HI      == U32(0, 3)
MTIMECMP_LO  == U32(0, \H4000)
MTIMECMP_HI  == U32(0, \H4007)
MTIME_LO     == U32(0, \HBFF8)
MTIME_HI     == U32(0, \HBFFF)

MTIP == Nat2W(\H80, 4)    \* the 0x80 that tick ORs into msip

Clint_new == [msip |-> Zero(4), mtimecmp |-> Zero(8), mtime |-> Zero(8)]

\* tick with the comparison mistaken for a strict one
Clint_tick_strict(c) ==
    LET t == WAdd(c.mtime, Nat2W(1, 8))
    IN  [c EXCEPT !.mtime = t,
                  !.msip  = IF ULt(c.mtimecmp, t) THEN BOr(c.msip, MTIP) ELSE c.msip]

\* tick that latches the pending bit without comparing
Clint_tick_always(c) ==
    [c EXCEPT !.mtime = WAdd(c.mtime, Nat2W(1, 8)), !.msip = BOr(c.msip, MTIP)]

Clint_tick(c) ==
    LET t == WAdd(c.mtime, Nat2W(1, 8))
    IN  [c EXCEPT !.mtime = t,
                  !.msip  = IF UGe(t, c.mtimecmp) THEN BOr(c.msip, MTIP) ELSE c.msip]

Clint_read8(c, addr) ==
    CASE InRange(addr, MSIP_LO, MSIP_HI) ->
            ShrLanes(c.msip, Low16(addr))[1]
      [] InRange(addr, MTIMECMP_LO, MTIMECMP_HI) ->
            ShrLanes(c.mtimecmp, Low16(WSub(addr, MTIMECMP_LO)))[1]
      [] InRange(addr, MTIME_LO, MTIME_HI) ->
            ShrLanes(c.mtime, Low16(WSub(addr, MTIME_LO)))[1]
      [] OTHER -> 0

\* write8 that forgets to clear msip when mtimecmp is written
Clint_write8_keeps_msip(c, addr, val) ==
    CASE InRange(addr, MSIP_LO, MSIP_HI) ->
            [c EXCEPT !.msip = apply_byte(c.msip, val, Low16(addr))]
      [] InRange(addr, MTIMECMP_LO, MTIMECMP_HI) ->
            [c EXCEPT !.mtimecmp = apply_byte(c.mtimecmp, val, Low16(WSub(addr, MTIMECMP_LO)))]
      [] InRange(addr, MTIME_LO, MTIME_HI) ->
            [c EXCEPT !.mtime = apply_byte(c.mtime, val, Low16(WSub(addr, MTIME_LO)))]
      [] OTHER -> c

Clint_write8(c, addr, val) ==
    CASE InRange(addr, MSIP_LO, MSIP_HI) ->
            [c EXCEPT !.msip = apply_byte(c.msip, val, Low16(addr))]
      [] InRange(addr, MTIMECMP_LO, MTIMECMP_HI) ->
            [c EXCEPT !.mtimecmp = apply_byte(c.mtimecmp, val, Low16(WSub(addr, MTIMECMP_LO))),
                      !.msip = Zero(4)]
      [] InRange(addr, MTIME_LO, MTIME_HI) ->
            [c EXCEPT !.mtime = apply_byte(c.mtime, val, Low16(WSub(addr, MTIME_LO)))]
      [] OTHER -> c

---------------------------------------------------------------------------
(* bus.rs: the Bus                                                         *)

RAM_SIZE == 65536

CLINT_LO == U32(\H1100, \H0000)
CLINT_HI == U32(\H1100, \HBFFF)
RAM_LO   == U32(\H8000, \H0000)
RAM_HI   == U32(\H8000, \HFFFF)

(* ram: [u8; RAM_SIZE], all zero at first.  The array is kept as the        *)
(* function from the indices that hold a nonzero byte to that byte.        *)
RamGet(ram, i) == IF i \in DOMAIN ram THEN ram[i] ELSE 0

RamSet(ram, i, v) ==
    IF v = 0 THEN [j \in DOMAIN ram \ {i} |-> ram[j]]
    ELSE [j \in DOMAIN ram \cup {i} |-> IF j = i THEN v ELSE ram[j]]

\* `self.ram[addr as usize]` is in bounds
InBounds(addr) == ULt(addr, <<0, 0, 1, 0>>) /\ Low16(addr) < RAM_SIZE

Bus_new == [ram |-> <<>>, clint |-> Clint_new]

\* a tick of the bus that leaves the timer alone
Bus_tick_idle(b) == b

Bus_tick(b) == [b EXCEPT !.clint = Clint_tick(b.clint)]

\* the result of an operation that may panic
Ok(v)  == [ok |-> TRUE, val |-> v]
Panic  == [ok |-> FALSE, val |-> <<>>]

Bus_read8(b, addr) ==
    CASE InRange(addr, CLINT_LO, CLINT_HI) ->
            Ok(Clint_read8(b.clint, WSub(addr, CLINT_LO)))
      [] InRange(addr, RAM_LO, RAM_HI) ->
            IF InBounds(addr) THEN Ok(RamGet(b.ram, Low16(addr))) ELSE Panic
      [] OTHER -> Ok(0)

Bus_write8(b, addr, val) ==
    CASE InRange(addr, CLINT_LO, CLINT_HI) ->
            Ok([b EXCEPT !.clint = Clint_write8(b.clint, WSub(addr, CLINT_LO), val)])
      [] InRange(addr, RAM_LO, RAM_HI) ->
            IF InBounds(addr) THEN Ok([b EXCEPT !.ram = RamSet(b.ram, Low16(addr), val)])
            ELSE [ok |-> FALSE, val |-> b]
      [] OTHER -> Ok(b)

\* `addr + k`: panics on overflow when the build checks overflow, wraps otherwise
AddrPlus(addr, k) ==
    LET kw == Nat2W(k, 4)
        s  == WAdd(addr, kw)
    IN  IF ULt(s, addr) /\ overflow_checks THEN Panic ELSE Ok(s)

\* read8 of addr, addr + 1, ... addr + n - 1, low byte first
RECURSIVE ReadBytes(_, _, _, _)
ReadBytes(b, addr, k, n) ==
    IF k = n THEN Ok(<<>>)
    ELSE LET a == AddrPlus(addr, k)
         IN  IF ~a.ok THEN Panic
             ELSE LET r == Bus_read8(b, a.val)
                  IN  IF ~r.ok THEN Panic
                      ELSE LET rest == ReadBytes(b, addr, k + 1, n)
                           IN  IF ~rest.ok THEN Panic ELSE Ok(<<r.val>> \o rest.val)

Bus_read16(b, addr) == ReadBytes(b, addr, 0, 2)

Bus_read32(b, addr) == ReadBytes(b, addr, 0, 4)

\* self.ram[(addr + k) as usize] = val[k + 1] for k = from .. n - 1, in order;
\* the stores made before an index out of bounds stay made
RECURSIVE StoreBytes(_, _, _, _, _)
StoreBytes(b, addr, val, k, n) ==
    IF k = n THEN Ok(b)
    ELSE LET a == AddrPlus(addr, k)
         IN  IF ~a.ok \/ ~InBounds(a.val) THEN [ok |-> FALSE, val |-> b]
             ELSE StoreBytes([b EXCEPT !.ram = RamSet(b.ram, Low16(a.val), val[k + 1])],
                             addr, val, k + 1, n)

Bus_write16(b, addr, val) == StoreBytes(b, addr, val, 0, 2)

Bus_write32(b, addr, val) == StoreBytes(b, addr, val, 0, 4)

---------------------------------------------------------------------------
(* cpu.rs: the hart's state                                                *)

Machine == 3    \* Mode::Machine

Cpu_new ==
    [xr |-> [i \in 0..31 |-> Zero(4)], pc |-> Zero(4),
     mstatus |-> Zero(4), mie |-> Zero(4), mtvec |-> Zero(4), mscratch |-> Zero(4),
     mepc |-> Zero(4), mcause |-> Zero(4), mtval |-> Zero(4), mip |-> Zero(4),
     mode |-> Machine, prev_mode |-> Machine]

---------------------------------------------------------------------------
(* cpu.rs: instruction decoding                                            *)

\* u16 -> i16: the low 12 bits, sign-extended from bit 11
into_i12(x) ==
    LET result == BAnd(x, <<\HFF, \H0F>>)
    IN  IF BAnd(x, <<0, \H08>>) # Zero(2) THEN BOr(result, <<0, \HF0>>) ELSE result

NoInst == [funct7 |-> 0, funct5 |-> 0, rs2 |-> 0, rs1 |-> 0, funct3 |-> 0, rd |-> 0,
           imm12 |-> Zero(2), imm32 |-> Zero(4)]

Inst_from_r(ir) ==
    [NoInst EXCEPT !.funct7 = Field(ir, 25, 7), !.funct5 = Field(ir, 27, 5),
                   !.rs2 = Field(ir, 20, 5), !.rs1 = Field(ir, 15, 5),
                   !.funct3 = Field(ir, 12, 3), !.rd = Field(ir, 7, 5)]

Inst_from_i(ir) ==
    [NoInst EXCEPT !.imm12 = into_i12(Nat2W(Field(ir, 20, 12), 2)),
                   !.rs1 = Field(ir, 15, 5), !.funct3 = Field(ir, 12, 3),
                   !.rd = Field(ir, 7, 5),
                   !.funct7 = Field(ir, 25, 7), !.funct5 = Field(ir, 27, 5)]

\* the two immediate fields are OR-ed without shifting the upper one
Inst_from_s(ir) ==
    [NoInst EXCEPT !.rs2 = Field(ir, 20, 5), !.rs1 = Field(ir, 15, 5),
                   !.funct3 = Field(ir, 12, 3),
                   !.imm12 = into_i12(Nat2W(Or8(Field(ir, 7, 5), Field(ir, 25, 7)), 2))]

Inst_from_u(ir) ==
    [NoInst EXCEPT !.rd = Field(ir, 7, 5), !.imm32 = Shl(Shr(ir, 12), 12)]

\* imm[12] is shifted to bit 31 of a u32 and lost in the cast to u16
Inst_from_b(ir) ==
    LET imm == BOr(BOr(Nat2W(Field(ir, 8, 4) * 2, 2), Nat2W(Field(ir, 25, 6) * 32, 2)),
                   BOr(Nat2W(Field(ir, 7, 1) * 2048, 2),
                       Trunc(Shl(Nat2W(Field(ir, 31, 1), 4), 31), 2)))
    IN  [NoInst EXCEPT !.rs2 = Field(ir, 20, 5), !.rs1 = Field(ir, 15, 5),
                       !.funct3 = Field(ir, 12, 3), !.imm12 = into_i12(imm)]

\* the 21-bit offset is not sign-extended
Inst_from_j(ir) ==
    LET imm == BOr(BOr(Nat2W(Field(ir, 21, 10) * 2, 4), Nat2W(Field(ir, 20, 1) * 2048, 4)),
                   BOr(Nat2W(Field(ir, 12, 8) * 4096, 4),
                       Nat2W(Field(ir, 31, 1) * 1048576, 4)))
    IN  [NoInst EXCEPT !.rd = Field(ir, 7, 5), !.imm32 = imm]

---------------------------------------------------------------------------
(* cpu.rs: registers and the outcome of a handler                          *)

\* get_x without the arm for index 0
get_x_raw(c, i) == c.xr[i]

get_x(c, i) == IF i = 0 THEN Zero(4) ELSE c.xr[i]

set_x(c, i, val) == [c EXCEPT !.xr[i] = val]

\* Ok(()), Err(..) from bail!, and a panic: the state each leaves behind
Done(c, b)  == [st |-> "ok", cpu |-> c, bus |-> b]
Bail(c, b)  == [st |-> "err", cpu |-> c, bus |-> b]
Abort(c, b) == [st |-> "panic", cpu |-> c, bus |-> b]

\* a + b on i32: does it overflow
SAddOverflows(a, b) == Neg(a) = Neg(b) /\ Neg(WAdd(a, b)) # Neg(a)

\* the shift amount of `x << rhs` / `x >> rhs` on a 32-bit x: a build with
\* overflow checks panics unless 0 <= rhs < 32, another build masks rhs to 5 bits
ShiftInRange(rhs) == rhs[1] < 32 /\ \A i \in 2..Len(rhs) : rhs[i] = 0
ShiftAmount(rhs)  == rhs[1] % 32

\* imm12 & 0x0FFF, as u32
Imm12Bits(imm12) == ZExt(BAnd(imm12, <<\HFF, \H0F>>), 4)

\* (base as i32).wrapping_add(imm12 as i32) as u32
EffAddr(c, rs1, imm12) == WAdd(get_x(c, rs1), SExt(imm12, 4))

Bool32(p) == IF p THEN Nat2W(1, 4) ELSE Zero(4)

---------------------------------------------------------------------------
(* cpu.rs: OP-IMM                                                          *)

Cpu_andi(c, b, rd, rs1, imm12) == Done(set_x(c, rd, BAnd(get_x(c, rs1), Imm12Bits(imm12))), b)

Cpu_addi(c, b, rd, rs1, imm12) ==
    IF overflow_checks /\ SAddOverflows(get_x(c, rs1), SExt(imm12, 4)) THEN Abort(c, b)
    ELSE Done(set_x(c, rd, WAdd(get_x(c, rs1), SExt(imm12, 4))), b)

Cpu_slli(c, b, rd, rs1, imm12) ==
    IF overflow_checks /\ ~ShiftInRange(imm12) THEN Abort(c, b)
    ELSE Done(set_x(c, rd, Shl(get_x(c, rs1), ShiftAmount(imm12))), b)

Cpu_slti(c, b, rd, rs1, imm12) ==
    Done(set_x(c, rd, Bool32(SLt(get_x(c, rs1), SExt(imm12, 4)))), b)

Cpu_sltiu(c, b, rd, rs1, imm12) ==
    Done(set_x(c, rd, Bool32(ULt(get_x(c, rs1), Imm12Bits(imm12)))), b)

Cpu_xori(c, b, rd, rs1, imm12) == Done(set_x(c, rd, BXor(get_x(c, rs1), Imm12Bits(imm12))), b)

Cpu_srli(c, b, rd, rs1, imm12) ==
    IF overflow_checks /\ ~ShiftInRange(imm12) THEN Abort(c, b)
    ELSE Done(set_x(c, rd, Shr(get_x(c, rs1), ShiftAmount(imm12))), b)

Cpu_srai(c, b, rd, rs1, imm12) ==
    IF overflow_checks /\ ~ShiftInRange(imm12) THEN Abort(c, b)
    ELSE Done(set_x(c, rd, Sar(get_x(c, rs1), ShiftAmount(imm12))), b)

Cpu_ori(c, b, rd, rs1, imm12) == Done(set_x(c, rd, BOr(get_x(c, rs1), Imm12Bits(imm12))), b)

\* opimm whose SLLI arm does not look at funct7
Cpu_opimm_loose(c, b, inst) ==
    LET rd == inst.rd  rs1 == inst.rs1  imm12 == inst.imm12
    IN  CASE inst.funct3 = 0 -> Cpu_addi(c, b, rd, rs1, imm12)
          [] inst.funct3 = 1 -> Cpu_slli(c, b, rd, rs1, imm12)
          [] inst.funct3 = 2 -> Cpu_slti(c, b, rd, rs1, imm12)
          [] inst.funct3 = 3 -> Cpu_sltiu(c, b, rd, rs1, imm12)
          [] inst.funct3 = 4 -> Cpu_xori(c, b, rd, rs1, imm12)
          [] inst.funct3 = 5 /\ inst.funct7 = 0 -> Cpu_srli(c, b, rd, rs1, imm12)
          [] inst.funct3 = 5 /\ inst.funct7 = 16 -> Cpu_srai(c, b, rd, rs1, imm12)
          [] inst.funct3 = 6 -> Cpu_ori(c, b, rd, rs1, imm12)
          [] inst.funct3 = 7 -> Cpu_andi(c, b, rd, rs1, imm12)
          [] OTHER -> Bail(c, b)

Cpu_opimm(c, b, inst) ==
    LET rd == inst.rd  rs1 == inst.rs1  imm12 == inst.imm12
    IN  CASE inst.funct3 = 0 -> Cpu_addi(c, b, rd, rs1, imm12)
          [] inst.funct3 = 1 /\ inst.funct7 = 0 -> Cpu_slli(c, b, rd, rs1, imm12)
          [] inst.funct3 = 2 -> Cpu_slti(c, b, rd, rs1, imm12)
          [] inst.funct3 = 3 -> Cpu_sltiu(c, b, rd, rs1, imm12)
          [] inst.funct3 = 4 -> Cpu_xori(c, b, rd, rs1, imm12)
          [] inst.funct3 = 5 /\ inst.funct7 = 0 -> Cpu_srli(c, b, rd, rs1, imm12)
          [] inst.funct3 = 5 /\ inst.funct7 = 16 -> Cpu_srai(c, b, rd, rs1, imm12)
          [] inst.funct3 = 6 -> Cpu_ori(c, b, rd, rs1, imm12)
          [] inst.funct3 = 7 -> Cpu_andi(c, b, rd, rs1, imm12)
          [] OTHER -> Bail(c, b)

---------------------------------------------------------------------------
(* cpu.rs: jumps and branches                                              *)

Cpu_jal(c, b, inst) ==
    LET c1 == set_x(c, inst.rd, WAdd(c.pc, Nat2W(4, 4)))
    IN  Done([c1 EXCEPT !.pc = WAdd(c.pc, inst.imm32)], b)

\* the immediate comes from imm32, which from_i leaves 0
Cpu_jalr(c, b, inst) ==
    LET base_addr == get_x(c, inst.rs1)
        c1 == set_x(c, inst.rd, WAdd(c.pc, Nat2W(4, 4)))
    IN  Done([c1 EXCEPT !.pc = WAdd(base_addr, inst.imm32)], b)

\* if taken { pc = pc.wrapping_add(imm12 as i32) }
BranchIf(c, b, taken, imm12) ==
    Done(IF taken THEN [c EXCEPT !.pc = WAdd(c.pc, SExt(imm12, 4))] ELSE c, b)

Cpu_beq(c, b, rs1, rs2, imm12)  == BranchIf(c, b, get_x(c, rs1) = get_x(c, rs2), imm12)
Cpu_bne(c, b, rs1, rs2, imm12)  == BranchIf(c, b, get_x(c, rs1) # get_x(c, rs2), imm12)
\* a BLT that compares unsigned
Cpu_blt_unsigned(c, b, rs1, rs2, imm12) ==
    BranchIf(c, b, ULt(get_x(c, rs1), get_x(c, rs2)), imm12)

Cpu_blt(c, b, rs1, rs2, imm12)  == BranchIf(c, b, SLt(get_x(c, rs1), get_x(c, rs2)), imm12)
Cpu_bge(c, b, rs1, rs2, imm12)  == BranchIf(c, b, ~SLt(get_x(c, rs1), get_x(c, rs2)), imm12)
Cpu_bltu(c, b, rs1, rs2, imm12) == BranchIf(c, b, ULt(get_x(c, rs1), get_x(c, rs2)), imm12)
Cpu_bgeu(c, b, rs1, rs2, imm12) == BranchIf(c, b, UGe(get_x(c, rs1), get_x(c, rs2)), imm12)

Cpu_branch(c, b, inst) ==
    LET rs1 == inst.rs1  rs2 == inst.rs2  imm12 == inst.imm12
    IN  CASE inst.funct3 = 0 -> Cpu_beq(c, b, rs1, rs2, imm12)
          [] inst.funct3 = 1 -> Cpu_bne(c, b, rs1, rs2, imm12)
          [] inst.funct3 = 4 -> Cpu_blt(c, b, rs1, rs2, imm12)
          [] inst.funct3 = 5 -> Cpu_bge(c, b, rs1, rs2, imm12)
          [] inst.funct3 = 6 -> Cpu_bltu(c, b, rs1, rs2, imm12)
          [] inst.funct3 = 7 -> Cpu_bgeu(c, b, rs1, rs2, imm12)
          [] OTHER -> Bail(c, b)

---------------------------------------------------------------------------
(* cpu.rs: loads and stores                                                *)

\* set_x(rd, f(value read)) unless the read panicked
Loaded(c, b, rd, r, n, signed) ==
    IF ~r.ok THEN Abort(c, b)
    ELSE LET v == IF n = 1 THEN <<r.val>> ELSE r.val
         IN  Done(set_x(c, rd, IF signed THEN SExt(v, 4) ELSE ZExt(v, 4)), b)

Cpu_lb(c, b, rd, rs1, imm12)  == Loaded(c, b, rd, Bus_read8(b, EffAddr(c, rs1, imm12)), 1, TRUE)
Cpu_lh(c, b, rd, rs1, imm12)  == Loaded(c, b, rd, Bus_read16(b, EffAddr(c, rs1, imm12)), 2, TRUE)
Cpu_lw(c, b, rd, rs1, imm12)  == Loaded(c, b, rd, Bus_read32(b, EffAddr(c, rs1, imm12)), 4, FALSE)
Cpu_lbu(c, b, rd, rs1, imm12) == Loaded(c, b, rd, Bus_read8(b, EffAddr(c, rs1, imm12)), 1, FALSE)
Cpu_lhu(c, b, rd, rs1, imm12) == Loaded(c, b, rd, Bus_read16(b, EffAddr(c, rs1, imm12)), 2, FALSE)

Cpu_load(c, b, inst) ==
    LET rd == inst.rd  rs1 == inst.rs1  imm12 == inst.imm12
    IN  CASE inst.funct3 = 0 -> Cpu_lb(c, b, rd, rs1, imm12)
          [] inst.funct3 = 1 -> Cpu_lh(c, b, rd, rs1, imm12)
          [] inst.funct3 = 2 -> Cpu_lw(c, b, rd, rs1, imm12)
          [] inst.funct3 = 4 -> Cpu_lbu(c, b, rd, rs1, imm12)
          [] inst.funct3 = 5 -> Cpu_lhu(c, b, rd, rs1, imm12)
          [] OTHER -> Bail(c, b)

\* the outcome of a bus write made by a handler
Stored(c, w) == IF w.ok THEN Done(c, w.val) ELSE Abort(c, w.val)

Cpu_sb(c, b, rs1, rs2, imm12) ==
    Stored(c, Bus_write8(b, EffAddr(c, rs1, imm12), get_x(c, rs2)[1]))

Cpu_sh(c, b, rs1, rs2, imm12) ==
    Stored(c, Bus_write16(b, EffAddr(c, rs1, imm12), Trunc(get_x(c, rs2), 2)))

Cpu_sw(c, b, rs1, rs2, imm12) ==
    Stored(c, Bus_write32(b, EffAddr(c, rs1, imm12), get_x(c, rs2)))

Cpu_store(c, b, inst) ==
    LET rs1 == inst.rs1  rs2 == inst.rs2  imm12 == inst.imm12
    IN  CASE inst.funct3 = 0 -> Cpu_sb(c, b, rs1, rs2, imm12)
          [] inst.funct3 = 1 -> Cpu_sh(c, b, rs1, rs2, imm12)
          [] inst.funct3 = 2 -> Cpu_sw(c, b, rs1, rs2, imm12)
          [] OTHER -> Bail(c, b)

---------------------------------------------------------------------------
(* cpu.rs: MISC-MEM and SYSTEM                                             *)

\* todo!() panics
Cpu_fence(c, b, imm12) == Abort(c, b)

Cpu_fencei(c, b) == Done(c, b)

Cpu_misc_mem(c, b, inst) ==
    CASE inst.funct3 = 0 -> Cpu_fence(c, b, inst.imm12)
      [] inst.funct3 = 1 -> Cpu_fencei(c, b)
      [] OTHER -> Bail(c, b)

\* the CSR a number selects ("none": get_csr and set_csr panic)
CsrField(no) ==
    CASE no = <<\H00, \H03>> -> "mstatus"
      [] no = <<\H04, \H03>> -> "mie"
      [] no = <<\H05, \H03>> -> "mtvec"
      [] no = <<\H40, \H03>> -> "mscratch"
      [] no = <<\H41, \H03>> -> "mepc"
      [] no = <<\H42, \H03>> -> "mcause"
      [] no = <<\H43, \H03>> -> "mtval"
      [] no = <<\H44, \H03>> -> "mip"
      [] OTHER -> "none"

get_csr(c, no) == c[CsrField(no)]

set_csr(c, no, val) == [c EXCEPT ![CsrField(no)] = val]

\* let csr_val = get_csr(no); set_x(rd, csr_val); set_csr(no, f(src_val, csr_val))
CsrOp(c, b, rd, imm12, new(_)) ==
    IF CsrField(imm12) = "none" THEN Abort(c, b)
    ELSE LET csr_val == get_csr(c, imm12)
         IN  Done(set_csr(set_x(c, rd, csr_val), imm12, new(csr_val)), b)

\* a CSRRW that writes rd before it reads rs1
Cpu_csrrw_rd_first(c, b, rd, rs1, imm12) ==
    IF CsrField(imm12) = "none" THEN Abort(c, b)
    ELSE Done(set_csr(set_x(c, rd, get_csr(c, imm12)), imm12,
                      get_x(set_x(c, rd, get_csr(c, imm12)), rs1)), b)

Cpu_csrrw(c, b, rd, rs1, imm12) ==
    LET new(csr_val) == get_x(c, rs1) IN CsrOp(c, b, rd, imm12, new)

Cpu_csrrs(c, b, rd, rs1, imm12) ==
    LET new(csr_val) == BOr(get_x(c, rs1), csr_val) IN CsrOp(c, b, rd, imm12, new)

\* src_val & !csr_val
Cpu_csrrc(c, b, rd, rs1, imm12) ==
    LET new(csr_val) == BAnd(get_x(c, rs1), BNot(csr_val)) IN CsrOp(c, b, rd, imm12, new)

Cpu_csrrwi(c, b, rd, rs1, imm12) ==
    LET new(csr_val) == Nat2W(rs1, 4) IN CsrOp(c, b, rd, imm12, new)

Cpu_csrrsi(c, b, rd, rs1, imm12) ==
    LET new(csr_val) == BOr(Nat2W(rs1, 4), csr_val) IN CsrOp(c, b, rd, imm12, new)

Cpu_csrrci(c, b, rd, rs1, imm12) ==
    LET new(csr_val) == BAnd(Nat2W(rs1, 4), BNot(csr_val)) IN CsrOp(c, b, rd, imm12, new)

Cpu_system(c, b, inst) ==
    LET rd == inst.rd  rs1 == inst.rs1  imm12 == inst.imm12
    IN  CASE inst.funct3 = 1 -> Cpu_csrrw(c, b, rd, rs1, imm12)
          [] inst.funct3 = 2 -> Cpu_csrrs(c, b, rd, rs1, imm12)
          [] inst.funct3 = 3 -> Cpu_csrrc(c, b, rd, rs1, imm12)
          [] inst.funct3 = 5 -> Cpu_csrrwi(c, b, rd, rs1, imm12)
          [] inst.funct3 = 6 -> Cpu_csrrsi(c, b, rd, rs1, imm12)
          [] inst.funct3 = 7 -> Cpu_csrrci(c, b, rd, rs1, imm12)
          [] OTHER -> Bail(c, b)

---------------------------------------------------------------------------
(* cpu.rs: OP, LUI, AUIPC                                                  *)

Cpu_lui(c, b, inst) == Done(set_x(c, inst.rd, inst.imm32), b)

Cpu_auipc(c, b, inst) == Done(set_x(c, inst.rd, WAdd(c.pc, inst.imm32)), b)

\* set_x(rd, f(get_x(rs1), get_x(rs2)))
RegOp(c, b, rd, val) == Done(set_x(c, rd, val), b)

\* an addition that fails on signed overflow where the build checks for it
Cpu_add_checked(c, b, rd, rs1, rs2) ==
    IF overflow_checks /\ SAddOverflows(get_x(c, rs1), get_x(c, rs2)) THEN Abort(c, b)
    ELSE RegOp(c, b, rd, WAdd(get_x(c, rs1), get_x(c, rs2)))

Cpu_add(c, b, rd, rs1, rs2) == RegOp(c, b, rd, WAdd(get_x(c, rs1), get_x(c, rs2)))
Cpu_sub(c, b, rd, rs1, rs2) == RegOp(c, b, rd, WSub(get_x(c, rs1), get_x(c, rs2)))
Cpu_slt(c, b, rd, rs1, rs2) == RegOp(c, b, rd, Bool32(SLt(get_x(c, rs1), get_x(c, rs2))))
Cpu_sltu(c, b, rd, rs1, rs2) == RegOp(c, b, rd, Bool32(ULt(get_x(c, rs1), get_x(c, rs2))))
Cpu_xor(c, b, rd, rs1, rs2) == RegOp(c, b, rd, BXor(get_x(c, rs1), get_x(c, rs2)))
Cpu_or(c, b, rd, rs1, rs2)  == RegOp(c, b, rd, BOr(get_x(c, rs1), get_x(c, rs2)))
Cpu_and(c, b, rd, rs1, rs2) == RegOp(c, b, rd, BAnd(get_x(c, rs1), get_x(c, rs2)))

Cpu_sll(c, b, rd, rs1, rs2) ==
    IF overflow_checks /\ ~ShiftInRange(get_x(c, rs2)) THEN Abort(c, b)
    ELSE RegOp(c, b, rd, Shl(get_x(c, rs1), ShiftAmount(get_x(c, rs2))))

Cpu_srl(c, b, rd, rs1, rs2) ==
    IF overflow_checks /\ ~ShiftInRange(get_x(c, rs2)) THEN Abort(c, b)
    ELSE RegOp(c, b, rd, Shr(get_x(c, rs1), ShiftAmount(get_x(c, rs2))))

Cpu_sra(c, b, rd, rs1, rs2) ==
    IF overflow_checks /\ ~ShiftInRange(get_x(c, rs2)) THEN Abort(c, b)
    ELSE RegOp(c, b, rd, Sar(get_x(c, rs1), ShiftAmount(get_x(c, rs2))))

Cpu_mul(c, b, rd, rs1, rs2) == RegOp(c, b, rd, WMul(get_x(c, rs1), get_x(c, rs2)))

\* both operands reach the 64-bit product zero-extended (u32 as i64)
MulHigh(c, rs1, rs2) ==
    LET p == WMul(ZExt(get_x(c, rs1), 8), ZExt(get_x(c, rs2), 8))
    IN  SubSeq(p, 5, 8)

Cpu_mulh(c, b, rd, rs1, rs2)   == RegOp(c, b, rd, MulHigh(c, rs1, rs2))
Cpu_mulhsu(c, b, rd, rs1, rs2) == RegOp(c, b, rd, MulHigh(c, rs1, rs2))
Cpu_mulhu(c, b, rd, rs1, rs2)  == RegOp(c, b, rd, MulHigh(c, rs1, rs2))

\* wrapping_div / wrapping_rem panic on a zero divisor
Cpu_div(c, b, rd, rs1, rs2) ==
    IF get_x(c, rs2) = Zero(4) THEN Abort(c, b)
    ELSE RegOp(c, b, rd, SDiv(get_x(c, rs1), get_x(c, rs2)))

Cpu_divu(c, b, rd, rs1, rs2) ==
    IF get_x(c, rs2) = Zero(4) THEN Abort(c, b)
    ELSE RegOp(c, b, rd, UDivMod(get_x(c, rs1), get_x(c, rs2)).q)

Cpu_rem(c, b, rd, rs1, rs2) ==
    IF get_x(c, rs2) = Zero(4) THEN Abort(c, b)
    ELSE RegOp(c, b, rd, SRem(get_x(c, rs1), get_x(c, rs2)))

Cpu_remu(c, b, rd, rs1, rs2) ==
    IF get_x(c, rs2) = Zero(4) THEN Abort(c, b)
    ELSE RegOp(c, b, rd, UDivMod(get_x(c, rs1), get_x(c, rs2)).r)

Cpu_op(c, b, inst) ==
    LET rd == inst.rd  rs1 == inst.rs1  rs2 == inst.rs2
        f3 == inst.funct3  f7 == inst.funct7
    IN  CASE f3 = 0 /\ f7 = 0  -> Cpu_add(c, b, rd, rs1, rs2)
          [] f3 = 0 /\ f7 = 1  -> Cpu_mul(c, b, rd, rs1, rs2)
          [] f3 = 0 /\ f7 = 32 -> Cpu_sub(c, b, rd, rs1, rs2)
          [] f3 = 1 /\ f7 = 0  -> Cpu_sll(c, b, rd, rs1, rs2)
          [] f3 = 1 /\ f7 = 1  -> Cpu_mulh(c, b, rd, rs1, rs2)
          [] f3 = 2 /\ f7 = 0  -> Cpu_slt(c, b, rd, rs1, rs2)
          [] f3 = 2 /\ f7 = 1  -> Cpu_mulhsu(c, b, rd, rs1, rs2)
          [] f3 = 3 /\ f7 = 0  -> Cpu_sltu(c, b, rd, rs1, rs2)
          [] f3 = 3 /\ f7 = 1  -> Cpu_mulhu(c, b, rd, rs1, rs2)
          [] f3 = 4 /\ f7 = 0  -> Cpu_xor(c, b, rd, rs1, rs2)
          [] f3 = 4 /\ f7 = 1  -> Cpu_div(c, b, rd, rs1, rs2)
          [] f3 = 5 /\ f7 = 0  -> Cpu_srl(c, b, rd, rs1, rs2)
          [] f3 = 5 /\ f7 = 1  -> Cpu_divu(c, b, rd, rs1, rs2)
          [] f3 = 5 /\ f7 = 32 -> Cpu_sra(c, b, rd, rs1, rs2)
          [] f3 = 6 /\ f7 = 0  -> Cpu_or(c, b, rd, rs1, rs2)
          [] f3 = 6 /\ f7 = 1  -> Cpu_rem(c, b, rd, rs1, rs2)
          [] f3 = 7 /\ f7 = 0  -> Cpu_and(c, b, rd, rs1, rs2)
          [] f3 = 7 /\ f7 = 1  -> Cpu_remu(c, b, rd, rs1, rs2)
          [] OTHER -> Bail(c, b)

---------------------------------------------------------------------------
(* cpu.rs: AMO                                                             *)

Cpu_lrw(c, b, rd, rs1, rs2) == Loaded(c, b, rd, Bus_read32(b, get_x(c, rs1)), 4, FALSE)

\* the store comes first; rd is cleared only if it did not panic
ScStored(c, rd, w) == IF w.ok THEN Done(set_x(c, rd, Zero(4)), w.val) ELSE Abort(c, w.val)

Cpu_scw(c, b, rd, rs1, rs2) ==
    ScStored(c, rd, Bus_write32(b, get_x(c, rs1), get_x(c, rs2)))

\* left = read32(addr); right = get_x(rs2); set_x(rd, left); write32(addr, f(left, right))
AmoRead(c, b, rd, addr, right, r, new(_, _)) ==
    IF ~r.ok THEN Abort(c, b)
    ELSE Stored(set_x(c, rd, r.val), Bus_write32(b, addr, new(r.val, right)))

AmoOp(c, b, rd, rs1, rs2, new(_, _)) ==
    AmoRead(c, b, rd, get_x(c, rs1), get_x(c, rs2), Bus_read32(b, get_x(c, rs1)), new)

Cpu_amoswapw(c, b, rd, rs1, rs2) ==
    LET new(left, right) == right IN AmoOp(c, b, rd, rs1, rs2, new)

Cpu_amoaddw(c, b, rd, rs1, rs2) ==
    LET new(left, right) == WAdd(left, right) IN AmoOp(c, b, rd, rs1, rs2, new)

Cpu_amoxorw(c, b, rd, rs1, rs2) ==
    LET new(left, right) == BXor(left, right) IN AmoOp(c, b, rd, rs1, rs2, new)

Cpu_amoandw(c, b, rd, rs1, rs2) ==
    LET new(left, right) == BAnd(left, right) IN AmoOp(c, b, rd, rs1, rs2, new)

Cpu_amoorw(c, b, rd, rs1, rs2) ==
    LET new(left, right) == BOr(left, right) IN AmoOp(c, b, rd, rs1, rs2, new)

Cpu_amominw(c, b, rd, rs1, rs2) ==
    LET new(left, right) == IF SLt(right, left) THEN right ELSE left
    IN  AmoOp(c, b, rd, rs1, rs2, new)

Cpu_amomaxw(c, b, rd, rs1, rs2) ==
    LET new(left, right) == IF SLt(right, left) THEN left ELSE right
    IN  AmoOp(c, b, rd, rs1, rs2, new)

Cpu_amominuw(c, b, rd, rs1, rs2) ==
    LET new(left, right) == IF ULt(right, left) THEN right ELSE left
    IN  AmoOp(c, b, rd, rs1, rs2, new)

Cpu_amomaxuw(c, b, rd, rs1, rs2) ==
    LET new(left, right) == IF ULt(right, left) THEN left ELSE right
    IN  AmoOp(c, b, rd, rs1, rs2, new)

Cpu_amo(c, b, inst) ==
    LET rd == inst.rd  rs1 == inst.rs1  rs2 == inst.rs2
    IN  CASE inst.funct5 = 2  -> Cpu_lrw(c, b, rd, rs1, rs2)
          [] inst.funct5 = 3  -> Cpu_scw(c, b, rd, rs1, rs2)
          [] inst.funct5 = 1  -> Cpu_amoswapw(c, b, rd, rs1, rs2)
          [] inst.funct5 = 0  -> Cpu_amoaddw(c, b, rd, rs1, rs2)
          [] inst.funct5 = 4  -> Cpu_amoxorw(c, b, rd, rs1, rs2)
          [] inst.funct5 = 12 -> Cpu_amoandw(c, b, rd, rs1, rs2)
          [] inst.funct5 = 8  -> Cpu_amoorw(c, b, rd, rs1, rs2)
          [] inst.funct5 = 16 -> Cpu_amominw(c, b, rd, rs1, rs2)
          [] inst.funct5 = 20 -> Cpu_amomaxw(c, b, rd, rs1, rs2)
          [] inst.funct5 = 24 -> Cpu_amominuw(c, b, rd, rs1, rs2)
          [] inst.funct5 = 28 -> Cpu_amomaxuw(c, b, rd, rs1, rs2)
          [] OTHER -> Bail(c, b)

---------------------------------------------------------------------------
(* cpu.rs: dispatch, interrupts and the tick                               *)

Opcode(ir) == Field(ir, 0, 7)

do_mnemonic(c, b, ir) ==
    LET opecode == Opcode(ir)
    IN  CASE opecode = \H03 -> Cpu_load(c, b, Inst_from_i(ir))
          [] opecode = \H23 -> Cpu_store(c, b, Inst_from_s(ir))
          [] opecode = \H63 -> Cpu_branch(c, b, Inst_from_b(ir))
          [] opecode = \H67 -> Cpu_jalr(c, b, Inst_from_i(ir))
          [] opecode = \H0F -> Cpu_misc_mem(c, b, Inst_from_i(ir))
          [] opecode = \H2F -> Cpu_amo(c, b, Inst_from_r(ir))
          [] opecode = \H6F -> Cpu_jal(c, b, Inst_from_j(ir))
          [] opecode = \H13 -> Cpu_opimm(c, b, Inst_from_i(ir))
          [] opecode = \H33 -> Cpu_op(c, b, Inst_from_r(ir))
          [] opecode = \H73 -> Cpu_system(c, b, Inst_from_i(ir))
          [] opecode = \H17 -> Cpu_auipc(c, b, Inst_from_u(ir))
          [] opecode = \H37 -> Cpu_lui(c, b, Inst_from_u(ir))
          [] OTHER -> Bail(c, b)

\* only the machine timer interrupt is taken
\* trap entry that records the pc of the next instruction and keeps mtval
do_interrupt_next(c, it) ==
    IF BAnd(it, MTIP) = Zero(4) THEN c
    ELSE [c EXCEPT !.mepc = WAdd(c.pc, Nat2W(4, 4)),
                   !.mcause = <<\H07, 0, 0, \H80>>,
                   !.pc = c.mtvec,
                   !.prev_mode = Machine]

\* trap entry that leaves mstatus as it was
do_interrupt_keeps_enable(c, it) ==
    IF BAnd(it, MTIP) = Zero(4) THEN c
    ELSE [c EXCEPT !.mtval = Zero(4),
                   !.mepc = c.pc,
                   !.mcause = <<\H07, 0, 0, \H80>>,
                   !.pc = c.mtvec,
                   !.prev_mode = Machine]

do_interrupt(c, it) ==
    IF BAnd(it, MTIP) = Zero(4) THEN c
    ELSE [c EXCEPT !.mtval = Zero(4),
                   !.mepc = c.pc,
                   !.mcause = <<\H07, 0, 0, \H80>>,
                   !.mstatus = BOr(BAnd(c.mstatus, Nat2W(\H80, 4)),
                                   Nat2W(c.prev_mode * 2048, 4)),
                   !.pc = c.mtvec,
                   !.prev_mode = Machine]

\* interrupt evaluation that does not look at the enable bit of mstatus
check_interrupt_unmasked(c, b) ==
    do_interrupt([c EXCEPT !.mip = BOr(c.mip, b.clint.msip)],
                 BAnd(c.mie, BOr(c.mip, b.clint.msip)))

\* interrupt evaluation that copies msip into mip
check_interrupt_tracks(c, b) ==
    LET c1 == [c EXCEPT !.mip = b.clint.msip]
        it == BAnd(c1.mie, c1.mip)
    IN  IF BAnd(c1.mstatus, Nat2W(8, 4)) # Zero(4) /\ it # Zero(4)
        THEN do_interrupt(c1, it)
        ELSE c1

check_interrupt(c, b) ==
    LET c1 == [c EXCEPT !.mip = BOr(c.mip, b.clint.msip)]
        it == BAnd(c1.mie, c1.mip)
    IN  IF BAnd(c1.mstatus, Nat2W(8, 4)) # Zero(4) /\ it # Zero(4)
        THEN do_interrupt(c1, it)
        ELSE c1

\* the outcome of a tick that fetched ir, with the word it fetched
Executed(r, ir) == [st |-> r.st, cpu |-> r.cpu, bus |-> r.bus, ir |-> ir, fetched |-> TRUE]

\* self.do_mnemonic(ir), unless the fetch panicked
Fetched(c, b, f) ==
    IF ~f.ok THEN [st |-> "panic", cpu |-> c, bus |-> b, ir |-> Zero(4), fetched |-> FALSE]
    ELSE Executed(do_mnemonic(c, b, f.val), f.val)

\* self.pc = self.pc.wrapping_add(4); let ir = self.bus.read32(self.pc)
FetchNext(c, b) ==
    Fetched([c EXCEPT !.pc = WAdd(c.pc, Nat2W(4, 4))], b, Bus_read32(b, WAdd(c.pc, Nat2W(4, 4))))

\* a tick that evaluates the interrupts before the timer has advanced
Cpu_tick_late(c, b) == FetchNext(check_interrupt(c, b), Bus_tick(b))

\* one tick: bus.tick, check_interrupt, then the fetch and the dispatch
Cpu_tick(c, b) == FetchNext(check_interrupt(c, Bus_tick(b)), Bus_tick(b))

---------------------------------------------------------------------------
(* The bus on its own: a Bus::new() driven through its public methods.     *)
(* Each run draws one base address and one word; the operations act on the *)
(* bytes at inp.addr .. inp.addr + 3.                                      *)

MaxBusTicks == 2

BusAddrs ==
    { RAM_LO, U32(\H8000, \HFFFC),                       \* RAM window
      CLINT_LO, U32(\H1100, \H4000), U32(\H1100, \H4004),  \* msip, mtimecmp
      U32(\H1100, \HBFF8), U32(\H1100, \HBFFC),          \* mtime
      U32(\H1100, \H0004),                               \* CLINT window, no register
      U32(0, 0), U32(0, \HFFFE),                         \* below both windows
      U32(\H2000, 0), U32(\HFFFF, \HFFFC) }              \* between and above them

BusWords == { U32(\H1234, \H5678), U32(\HFFFF, \HFF80) }

Lanes     == 0..3
HalfLanes == {0, 2, 3}

At(k) == WAdd(inp.addr, Nat2W(k, 4))

InitBus ==
    /\ cpu = Cpu_new
    /\ bus = Bus_new
    /\ overflow_checks \in BOOLEAN
    /\ res = "ok"
    /\ last = [op |-> "new", k |-> 0, ret |-> <<>>]
    /\ inp \in [addr : BusAddrs, word : BusWords]
    /\ cnt = [ticks |-> 0, run |-> 0, wr |-> "none"]

\* a write: the bus after it, and whether it returned
BusWrote(r, op, k, run) ==
    /\ bus' = r.val
    /\ res' = IF r.ok THEN "ok" ELSE "panic"
    /\ last' = [op |-> op, k |-> k, ret |-> <<>>]
    /\ cnt' = [cnt EXCEPT !.run = IF r.ok THEN run ELSE 0, !.wr = op]
    /\ UNCHANGED <<cpu, overflow_checks, inp>>

\* a read: what it returned
BusRead(r, op, k) ==
    /\ res' = IF r.ok THEN "ok" ELSE "panic"
    /\ last' = [op |-> op, k |-> k, ret |-> r.val]
    /\ UNCHANGED <<cpu, bus, overflow_checks, inp, cnt>>

DoBusWrite8 ==
    \E k \in Lanes :
        /\ res # "panic"
        /\ BusWrote(Bus_write8(bus, At(k), inp.word[k + 1]), "write8", k,
                    IF k = cnt.run THEN cnt.run + 1 ELSE IF k = 0 THEN 1 ELSE 0)

DoBusWrite16 ==
    \E k \in HalfLanes :
        /\ res # "panic"
        /\ BusWrote(Bus_write16(bus, At(k), Trunc(inp.word, 2)), "write16", k, 0)

DoBusWrite32 ==
    /\ res # "panic"
    /\ BusWrote(Bus_write32(bus, At(0), inp.word), "write32", 0, 0)

DoBusRead8 ==
    \E k \in Lanes :
        /\ res # "panic"
        /\ BusRead(Bus_read8(bus, At(k)), "read8", k)

DoBusRead16 ==
    \E k \in HalfLanes :
        /\ res # "panic"
        /\ BusRead(Bus_read16(bus, At(k)), "read16", k)

DoBusRead32 ==
    /\ res # "panic"
    /\ BusRead(Bus_read32(bus, At(0)), "read32", 0)

DoBusTick ==
    /\ res # "panic"
    /\ cnt.ticks < MaxBusTicks
    /\ bus' = Bus_tick(bus)
    /\ res' = "ok"
    /\ last' = [op |-> "tick", k |-> 0, ret |-> <<>>]
    /\ cnt' = [cnt EXCEPT !.ticks = @ + 1, !.run = 0, !.wr = "tick"]
    /\ UNCHANGED <<cpu, overflow_checks, inp>>

NextBus ==
    \/ DoBusWrite8
    \/ DoBusWrite16
    \/ DoBusWrite32
    \/ DoBusRead8
    \/ DoBusRead16
    \/ DoBusRead32
    \/ DoBusTick

SpecBus == InitBus /\ [][NextBus]_vars

---------------------------------------------------------------------------
(* Claims about the bus, under SpecBus                                     *)

InRam(a)    == InRange(a, RAM_LO, RAM_HI)
InClint(a)  == InRange(a, CLINT_LO, CLINT_HI)
InMtimecmp(a) == InRange(a, WAdd(CLINT_LO, MTIMECMP_LO), WAdd(CLINT_LO, MTIMECMP_HI))
InMtime(a)    == InRange(a, WAdd(CLINT_LO, MTIME_LO), WAdd(CLINT_LO, MTIME_HI))

\* the n bytes from a on all satisfy P
Span(P(_), a, n) == \A k \in 0..(n - 1) : P(WAdd(a, Nat2W(k, 4)))

Unmapped(a) == ~InRam(a) /\ ~InClint(a)

OpWidth(op) == CASE op \in {"read8", "write8"} -> 1
                 [] op \in {"read16", "write16"} -> 2
                 [] OTHER -> 4

\* C5: for every addr with addr..addr+3 inside the RAM region and every
\* 32-bit v, write32(addr, v) completes, and a read32(addr) that follows it
\* completes and returns v.
C5_RoundTrip ==
    Span(InRam, inp.addr, 4) =>
        /\ last.op = "write32" => res = "ok"
        /\ (last.op = "read32" /\ cnt.wr = "write32") =>
                (res = "ok" /\ last.ret = inp.word)

\* write8 of each byte of val at addr, addr + 1, ..., from byte k + 1 on
RECURSIVE Write8Each(_, _, _, _)
Write8Each(b, addr, val, k) ==
    IF k = Len(val) THEN Ok(b)
    ELSE LET r == Bus_write8(b, WAdd(addr, Nat2W(k, 4)), val[k + 1])
         IN  IF ~r.ok THEN r ELSE Write8Each(r.val, addr, val, k + 1)

\* C6: write16(addr, v) and write32(addr, v) leave the bus (RAM bytes and
\* msip, mtimecmp, mtime) in the state that write8 of each little-endian byte
\* of v at addr, addr+1, ... produces; a 32-bit write to the mtimecmp window
\* updates mtimecmp and clears msip.
C6_WideWriteIsByteWrites ==
    [][ /\ last'.op = "write32" =>
              LET r == Write8Each(bus, At(0), inp.word, 0)
              IN  (res' = "ok") = r.ok /\ bus' = r.val
        /\ last'.op = "write16" =>
              LET r == Write8Each(bus, At(last'.k), Trunc(inp.word, 2), 0)
              IN  (res' = "ok") = r.ok /\ bus' = r.val
        /\ (last'.op = "write32" /\ Span(InMtimecmp, inp.addr, 4)) =>
              /\ res' = "ok"
              /\ bus'.clint.msip = Zero(4)
              /\ \A k \in Lanes :
                    Bus_read8(bus', At(k)) = Ok(inp.word[k + 1]) ]_vars

\* C7: for every addr whose four bytes are backed by storage (RAM, mtimecmp
\* or mtime) and all bytes b0..b3, write8(addr, b0) .. write8(addr+3, b3)
\* complete and a read32(addr) that follows returns b0 | b1<<8 | b2<<16 | b3<<24.
C7_ByteComposition ==
    (\/ Span(InRam, inp.addr, 4)
     \/ Span(InMtimecmp, inp.addr, 4)
     \/ Span(InMtime, inp.addr, 4)) =>
        /\ last.op = "write8" => res = "ok"
        /\ (cnt.run = 4 /\ last.op = "read32") =>
                (res = "ok" /\ last.ret = inp.word)

\* C8: at every address outside the timer window and the RAM window, read8,
\* read16 and read32 return 0, and write8, write16 and write32 complete
\* without failure and leave every RAM byte and every timer register unchanged.
C8_UnmappedIsInert ==
    [][ Span(Unmapped, At(last'.k), OpWidth(last'.op)) =>
          /\ last'.op \in {"read8", "read16", "read32"} =>
                (res' = "ok" /\ last'.ret = Zero(OpWidth(last'.op)))
          /\ last'.op \in {"write8", "write16", "write32"} =>
                (res' = "ok" /\ bus' = bus) ]_vars

---------------------------------------------------------------------------
(* The CLINT on its own: a Clint::new() under tick, write8 and read8.      *)
(* The timer under test is bus.clint; nothing else changes.  Each run      *)
(* draws two byte writes (an offset and a byte each) and applies them, and *)
(* ticks, in any order and any number of times.  timer.rs has no checked   *)
(* arithmetic, so the build profile is left at one value.                  *)

MaxClintTicks == 3

ClintOffsets ==
    { U32(0, 0), U32(0, 3),                                   \* msip
      U32(0, 4), U32(0, \HC000) }                             \* no register
    \cup { U32(0, \H4000 + k) : k \in 0..7 }                  \* mtimecmp
    \cup { U32(0, \HBFF8), U32(0, \HBFFF) }                   \* mtime

ClintBytes == { 1, \HFF }

\* the second write of a run: the low lane of msip or of mtime
ClintOffsets2 == { U32(0, 0), U32(0, \HBFF8) }

NoInput == [addr |-> Zero(4), word |-> Zero(4)]

InitClint ==
    /\ cpu = Cpu_new
    /\ bus = Bus_new
    /\ overflow_checks = FALSE
    /\ res = "ok"
    /\ last = [op |-> "new", addr |-> Zero(4), val |-> 0, ret |-> 0, pre |-> Clint_new]
    /\ inp \in [w1 : [addr : ClintOffsets, val : ClintBytes],
                w2 : [addr : ClintOffsets2, val : ClintBytes]]
    /\ cnt = [ticks |-> 0]

DoClintTick ==
    /\ cnt.ticks < MaxClintTicks
    /\ bus' = [bus EXCEPT !.clint = Clint_tick(bus.clint)]
    /\ last' = [op |-> "tick", addr |-> Zero(4), val |-> 0, ret |-> 0, pre |-> bus.clint]
    /\ cnt' = [cnt EXCEPT !.ticks = @ + 1]
    /\ UNCHANGED <<cpu, overflow_checks, res, inp>>

DoClintWrite8 ==
    \E w \in {inp.w1, inp.w2} :
        /\ bus' = [bus EXCEPT !.clint = Clint_write8(bus.clint, w.addr, w.val)]
        /\ last' = [op |-> "write8", addr |-> w.addr, val |-> w.val, ret |-> 0,
                    pre |-> bus.clint]
        /\ UNCHANGED <<cpu, overflow_checks, res, inp, cnt>>

DoClintRead8 ==
    \E w \in {inp.w1, inp.w2} :
        /\ last' = [op |-> "read8", addr |-> w.addr, val |-> 0,
                    ret |-> Clint_read8(bus.clint, w.addr), pre |-> bus.clint]
        /\ UNCHANGED <<cpu, bus, overflow_checks, res, inp, cnt>>

NextClint ==
    \/ DoClintTick
    \/ DoClintWrite8
    \/ DoClintRead8

SpecClint == InitClint /\ [][NextClint]_vars

\* bit 0x80 (machine timer interrupt pending) of a u32
Bit80(w) == And8(w[1], \H80) = \H80

\* C10: a byte write to any of the eight mtimecmp offsets 0x4000..0x4007
\* leaves msip equal to 0, whatever msip, mtime and mtimecmp were before and
\* whatever byte is written.
C10_MtimecmpWriteClearsMsip ==
    (last.op = "write8" /\ InRange(last.addr, MTIMECMP_LO, MTIMECMP_HI)) =>
        bus.clint.msip = Zero(4)

\* C10 witness: an mtimecmp byte was written while msip had its pending bit
\* set and mtime >= mtimecmp held.
C10_Witness ==
    /\ last.op = "write8"
    /\ InRange(last.addr, MTIMECMP_LO, MTIMECMP_HI)
    /\ Bit80(last.pre.msip)
    /\ UGe(last.pre.mtime, last.pre.mtimecmp)
    /\ bus.clint.msip = Zero(4)

\* C11 as stated: in every state reached from reset by timer ticks and byte
\* writes to the timer window, bit 0x80 of msip is set only if
\* mtime >= mtimecmp.
C11_PendingOnlyWhenDue ==
    Bit80(bus.clint.msip) => UGe(bus.clint.mtime, bus.clint.mtimecmp)

\* C11 amended: bit 0x80 of msip goes from clear to set only in a tick after
\* which mtime >= mtimecmp, or in a byte write to msip offset 0 whose byte
\* carries the bit.
C11_PendingSetOnlyWhenDue ==
    [][(~Bit80(bus.clint.msip) /\ Bit80(bus'.clint.msip)) =>
          \/ /\ last'.op = "tick"
             /\ UGe(bus'.clint.mtime, bus'.clint.mtimecmp)
          \/ /\ last'.op = "write8"
             /\ last'.addr = MSIP_LO
             /\ And8(last'.val, \H80) = \H80]_vars

\* C11 witness: a tick has just set the bit, with a comparator above 0 that
\* earlier ticks stayed below.
C11_Witness ==
    /\ last.op = "tick"
    /\ ~Bit80(last.pre.msip)
    /\ Bit80(bus.clint.msip)
    /\ bus.clint.mtimecmp # Zero(8)
    /\ bus.clint.mtime = bus.clint.mtimecmp
    /\ cnt.ticks > 1

\* the register a timer offset lies in, and the byte lane (1 is the lowest)
RegisterAt(addr) ==
    CASE InRange(addr, MSIP_LO, MSIP_HI)         -> [reg |-> "msip", lane |-> Low16(addr) + 1]
      [] InRange(addr, MTIMECMP_LO, MTIMECMP_HI) ->
             [reg |-> "mtimecmp", lane |-> Low16(addr) - \H4000 + 1]
      [] InRange(addr, MTIME_LO, MTIME_HI)       ->
             [reg |-> "mtime", lane |-> Low16(addr) - \HBFF8 + 1]
      [] OTHER -> [reg |-> "none", lane |-> 0]

\* C22: a timer write8(offset, b) inside the msip, mtimecmp or mtime window
\* makes a following read8(offset) return b and leaves every other byte lane
\* of that register as it was; no other timer register changes, except that
\* a write to mtimecmp also sets msip to 0.
C22_ByteWriteTouchesOneLane ==
    (last.op = "write8" /\ RegisterAt(last.addr).reg # "none") =>
        LET at == RegisterAt(last.addr)
        IN  /\ Clint_read8(bus.clint, last.addr) = last.val
            /\ bus.clint[at.reg] = [last.pre[at.reg] EXCEPT ![at.lane] = last.val]
            /\ \A r \in {"msip", "mtimecmp", "mtime"} \ {at.reg} :
                   bus.clint[r] = (IF at.reg = "mtimecmp" /\ r = "msip" THEN Zero(4)
                                   ELSE last.pre[r])

\* the read that follows such a write returns the byte written
C22_ReadAfterWrite ==
    [][(last.op = "write8" /\ RegisterAt(last.addr).reg # "none"
          /\ last'.op = "read8" /\ last'.addr = last.addr) => last'.ret = last.val]_vars

\* the low lane of mtime was written after ticks had counted in it and a
\* write had filled the top lane, which kept its value, as did msip
C22_Witness ==
    /\ last.op = "write8"
    /\ last.addr = MTIME_LO
    /\ last.val = \HFF
    /\ last.pre.mtime[1] \in 1..MaxClintTicks
    /\ last.pre.mtime[8] = 1
    /\ bus.clint.mtime[1] = \HFF
    /\ bus.clint.mtime[8] = 1
    /\ Bit80(bus.clint.msip)

---------------------------------------------------------------------------
(* The timer threshold: a timer with mtime = 0, msip = 0 and mtimecmp = c, *)
(* ticked with no register write in between.                               *)

MaxCmp            == 12
MaxThresholdTicks == 14

\* comparator values: the small ones, and two that need the upper bytes
ThresholdCmps ==
    { Nat2W(c, 8) : c \in 1..MaxCmp } \cup { Nat2W(256, 8), ShlLanes(Nat2W(1, 8), 4) }

InitThreshold ==
    /\ cpu = Cpu_new
    /\ \E c \in ThresholdCmps :
          bus = [Bus_new EXCEPT !.clint = [msip |-> Zero(4), mtimecmp |-> c, mtime |-> Zero(8)]]
    /\ overflow_checks = FALSE
    /\ res = "ok"
    /\ last = [op |-> "new"]
    /\ inp = NoInput
    /\ cnt = [ticks |-> 0]

DoThresholdTick ==
    /\ cnt.ticks < MaxThresholdTicks
    /\ bus' = [bus EXCEPT !.clint = Clint_tick(bus.clint)]
    /\ last' = [op |-> "tick"]
    /\ cnt' = [ticks |-> cnt.ticks + 1]
    /\ UNCHANGED <<cpu, overflow_checks, res, inp>>

NextThreshold == DoThresholdTick

SpecThreshold == InitThreshold /\ [][NextThreshold]_vars

\* C9: from mtime = 0, msip = 0 and mtimecmp = c >= 1, with no register
\* write in between, after n timer ticks bit 0x80 of msip is set if and only
\* if n >= c.
C9_Threshold ==
    Bit80(bus.clint.msip) <=> UGe(Nat2W(cnt.ticks, 8), bus.clint.mtimecmp)

\* C9 witness: c = 5, the bit clear after 4 ticks is behind and the fifth
\* tick has set it.
C9_Witness ==
    /\ bus.clint.mtimecmp = Nat2W(5, 8)
    /\ cnt.ticks = 5
    /\ Bit80(bus.clint.msip)

---------------------------------------------------------------------------
(* The hart: a driver builds a bus, writes to it, hands it to Cpu::new,    *)
(* sets a0 and a1 and calls tick() repeatedly.  A tick that returns Err    *)
(* leaves the caller free to tick again; a panic ends the run.             *)
(*                                                                         *)
(* No read of the RAM window succeeds and every address outside the two    *)
(* windows reads 0, so the only words the hart can fetch and execute are   *)
(* the timer's registers.  From reset the pc climbs by 4 per tick through  *)
(* words that read 0 (each tick a decode error) until it reaches the       *)
(* mtimecmp register, whose two words the driver wrote before the first    *)
(* tick.  The runs below start either at reset or at the end of that       *)
(* climb, one tick before the fetch from mtimecmp.  After the two words of *)
(* mtimecmp the pc climbs again through words that read 0 up to mtime,     *)
(* whose low word is by then what the driver's initial mtime has grown to: *)
(* a third instruction.                                                    *)

MaxCpuTicks == 4

\* instruction words from their fields
EncR(f7, rs2, rs1, f3, rd, op) ==
    U32(f7 * 512 + rs2 * 16 + rs1 \div 2, (rs1 % 2) * 32768 + f3 * 4096 + rd * 128 + op)

EncI(imm, rs1, f3, rd, op) ==
    U32(imm * 16 + rs1 \div 2, (rs1 % 2) * 32768 + f3 * 4096 + rd * 128 + op)

EncS(imm, rs2, rs1, f3, op) == EncR(imm \div 32, rs2, rs1, f3, imm % 32, op)

EncU(imm20, rd, op) == U32(imm20 \div 16, (imm20 % 16) * 4096 + rd * 128 + op)

\* B format: off is the byte offset modulo 2^13, imm[12|10:5] goes to bits
\* 31:25 and imm[4:1|11] to bits 11:7
EncB(off, rs2, rs1, f3) ==
    EncR((off \div 4096) * 64 + ((off \div 32) % 64), rs2, rs1, f3,
         ((off \div 2) % 16) * 2 + ((off \div 2048) % 2), \H63)

\* J format: off is the byte offset modulo 2^21, imm[20|10:1|11|19:12] goes
\* to bits 31:12
EncJ(off, rd) ==
    EncU((off \div 1048576) * 524288 + ((off \div 2) % 1024) * 512
            + ((off \div 2048) % 2) * 256 + ((off \div 4096) % 256), rd, \H6F)

ADDI(rd, rs1, imm) == EncI(imm, rs1, 0, rd, \H13)
ADD(rd, rs1, rs2)  == EncR(0, rs2, rs1, 0, rd, \H33)
SUB(rd, rs1, rs2)  == EncR(32, rs2, rs1, 0, rd, \H33)
LUI(rd, imm20)     == EncU(imm20, rd, \H37)
JAL(rd)            == EncU(0, rd, \H6F)
SW(rs2, rs1, imm)  == EncS(imm, rs2, rs1, 2, \H23)
BNE(rs1, rs2)      == EncS(0, rs2, rs1, 1, \H63)
CSRRS(rd, csr, rs1)   == EncI(csr, rs1, 2, rd, \H73)
CSRRSI(rd, csr, uimm) == EncI(csr, uimm, 6, rd, \H73)
CSRRW(rd, csr, rs1)   == EncI(csr, rs1, 1, rd, \H73)
CSRRC(rd, csr, rs1)   == EncI(csr, rs1, 3, rd, \H73)
CSRRCI(rd, csr, uimm) == EncI(csr, uimm, 7, rd, \H73)
LW(rd, rs1, imm)   == EncI(imm, rs1, 2, rd, \H03)
SB(rs2, rs1, imm)  == EncS(imm, rs2, rs1, 0, \H23)
SH(rs2, rs1, imm)  == EncS(imm, rs2, rs1, 1, \H23)
MulDiv(f3, rd, rs1, rs2) == EncR(1, rs2, rs1, f3, rd, \H33)
Amo(f5, rd, rs1, rs2) == EncR(f5 * 4, rs2, rs1, 2, rd, \H2F)
OpImm(f3, rd, rs1, imm) == EncI(imm, rs1, f3, rd, \H13)
JALR(rd, rs1, imm) == EncI(imm, rs1, 0, rd, \H67)

\* the program of the end-to-end scenario
Program3 == <<ADDI(1, 0, 5), ADDI(2, 0, 7), ADD(3, 1, 2)>>

\* words no dispatch arm matches
UnknownWords ==
    { <<\HFF, \HFF, \HFF, \HFF>>,          \* opcode 0x7F
      EncR(2, 11, 10, 0, 5, \H33),         \* OP, funct7 = 0b0000010
      EncR(32, 11, 10, 4, 5, \H33),        \* OP, funct3 = 100 with funct7 = 0b0100000
      EncI(1024 + 3, 10, 1, 5, \H13),      \* OP-IMM, funct3 = 001 with funct7 # 0
      EncI(1024 + 3, 10, 5, 5, \H13),      \* OP-IMM, funct3 = 101 with funct7 = 0b0100000
      EncI(0, 10, 3, 5, \H03),             \* LOAD, funct3 = 011
      EncS(16, 10, 0, 3, \H23),            \* STORE, funct3 = 011
      EncS(8, 10, 0, 2, \H63),             \* BRANCH, funct3 = 010
      EncI(0, 0, 2, 0, \H0F),              \* MISC-MEM, funct3 = 010
      EncR(5 * 4, 10, 0, 2, 5, \H2F),      \* AMO, funct5 = 0b00101
      EncI(0, 0, 0, 0, \H73),              \* SYSTEM, funct3 = 000
      EncI(768, 10, 4, 5, \H73) }          \* SYSTEM, funct3 = 100

\* instructions that give x5 a value to go with a0: -1, 0x8000_0000, a0
OperandSetups == { ADDI(5, 0, 4095), LUI(5, 524288), ADDI(5, 10, 0) }

\* ADD, SUB and MUL on x5 and a0, one of them with rd = rs2
ArithWords == { ADD(6, 5, 10), SUB(6, 10, 5), MulDiv(0, 10, 5, 10) }

\* MULH, MULHSU (both operand orders) and MULHU on x5 and a0
MulHighWords ==
    { MulDiv(1, 6, 5, 10), MulDiv(2, 6, 5, 10), MulDiv(2, 6, 10, 5), MulDiv(3, 6, 5, 10) }

\* funct3 of BEQ, BNE, BLT, BGE, BLTU and BGEU
BranchFuncts == {0, 1, 4, 5, 6, 7}

\* instructions that give x5 a value to compare with a0: 0x8000_0000 (below
\* a0 signed, above it unsigned), a0, a0 - 1 and a0 + 1
BranchSetups == { LUI(5, 524288), ADDI(5, 10, 0), ADDI(5, 10, 4095), ADDI(5, 10, 1) }

\* funct3 of DIV, DIVU, REM and REMU
DivFuncts == {4, 5, 6, 7}

\* the numbers of the eight CSRs
CsrNumbers == {768, 772, 773, 832, 833, 834, 835, 836}

\* the programs: the two words the driver writes to mtimecmp (low, high) and,
\* where there is a third, the word the low half of mtime holds when the pc
\* reaches it
Programs ==
    { <<ADDI(0, 0, 5), ADD(3, 0, 0)>>,
      <<ADDI(0, 10, 0), ADDI(4, 0, 7)>>,
      <<LUI(0, 74565), SUB(5, 10, 0)>>,
      <<JAL(0), SW(0, 0, 16)>>,
      <<ADDI(0, 10, 1), BNE(0, 10)>>,
      <<ADDI(5, 10, 2047), SW(10, 0, 16)>>,
      <<CSRRS(0, 772, 10), CSRRSI(0, 768, 8)>>,
      <<CSRRS(0, 772, 10), CSRRS(0, 768, 10)>>,
      <<LW(5, 10, 0), SB(10, 10, 1)>>,
      <<CSRRS(0, 772, 10), CSRRW(0, 773, 10), CSRRS(0, 768, 10)>>,
      <<ADD(10, 10, 10), SUB(5, 0, 10)>> }
    \cup { <<i1, i2>> : i1 \in OperandSetups, i2 \in ArithWords }
    \cup { <<MulDiv(f3, 6, 10, 0), ADDI(0, 0, 0)>> : f3 \in DivFuncts }
    \cup { <<ADDI(5, 0, 4095), MulDiv(f3, 6, 10, 5)>> : f3 \in DivFuncts }
    \cup { <<LUI(5, 524288), ADDI(6, 0, 4095), MulDiv(f3, 7, 5, 6)>> : f3 \in {4, 6} }
    \cup { <<CSRRW(10, no, 10), CSRRW(6, no, 0)>> : no \in CsrNumbers }
    \cup { <<i1, EncB(8, 10, 5, f3)>> : i1 \in BranchSetups, f3 \in BranchFuncts }
    \cup { <<EncJ(8, 1), ADDI(0, 0, 0)>>, <<ADDI(0, 0, 0), EncJ(2097152 - 8, 1)>> }
    \cup { <<JALR(1, 10, 8), ADDI(0, 0, 0)>>, <<JALR(10, 10, 0), ADDI(0, 0, 0)>> }
    \cup { <<i1, i2>> : i1 \in { ADDI(5, 0, 4095), LUI(5, 524288) }, i2 \in MulHighWords }
    \cup { <<ADDI(5, 10, 0), EncB(2048, 10, 5, 0)>>, <<ADDI(5, 10, 0), EncB(8192 - 8, 10, 5, 5)>> }
    \cup { <<LUI(5, 524288), Amo(0, 6, 5, 10)>>, <<LUI(5, 524288), Amo(1, 5, 5, 10)>>,
           <<SW(10, 10, 0), Amo(0, 6, 10, 10)>> }
    \cup { <<ADDI(6, 10, 1), EncB(8192 - 4, 0, 0, 0)>> }        \* BEQ x0,x0,-4
    \cup { <<LUI(5, 69636), SB(5, 5, 0)>> }      \* x5 = 0x1100_4000, SB x5,0(x5)
    \cup { <<SB(10, 10, 33), SW(10, 0, 48)>>, <<SB(10, 10, 7), SH(10, 0, 20)>> }
    \cup { <<OpImm(7, 5, 10, 4095), OpImm(4, 6, 10, 4095)>>,    \* ANDI, XORI with -1
           <<OpImm(3, 5, 10, 4095), OpImm(6, 6, 10, 4095)>>,    \* SLTIU, ORI with -1
           <<OpImm(1, 5, 10, 3), OpImm(5, 6, 10, 3)>>,          \* SLLI, SRLI by 3
           <<OpImm(2, 5, 10, 4095), OpImm(5, 6, 10, 1024 + 3)>> } \* SLTI, SRAI by 3
    \cup { <<CSRRW(0, 832, 10), i2>> : i2 \in { CSRRCI(5, 832, 8), CSRRC(5, 832, 10),
                                                CSRRSI(5, 832, 3), CSRRS(10, 832, 10) } }
    \cup { <<w, ADDI(6, 10, 1)>> : w \in UnknownWords }
    \cup { <<ADDI(0, 10, 3), w>> : w \in UnknownWords }

\* what else the driver does before the first tick: the value it passes to
\* set_a0 and the byte it writes to msip
Drivers ==
    { [a0 |-> <<\H80, 0, 0, 0>>, msip |-> 0],
      [a0 |-> <<\H88, 0, 0, 0>>, msip |-> 8],
      [a0 |-> <<\HFF, \HFF, \HFF, \H7F>>, msip |-> \H80],
      [a0 |-> WAdd(CLINT_LO, MTIME_LO), msip |-> 0] }

\* the pc one tick before the fetch from mtimecmp, and the number of ticks
\* (all decode errors) that take the pc there from reset
ClimbPc    == <<\HFC, \H3F, \H00, \H11>>
ClimbTicks == <<\HFF, \H0F, \H40, \H04, 0, 0, 0, 0>>

\* the pc one tick before the fetch from mtime, and the number of ticks (all
\* decode errors) that take the pc there from the high word of mtimecmp
StretchPc    == <<\HF4, \HBF, \H00, \H11>>
StretchFrom  == <<\H04, \H40, \H00, \H11>>
StretchTicks == <<\HFC, \H1F, 0, 0, 0, 0, 0, 0>>

\* the ticks from the end of the first climb to the fetch from mtime
TicksToThird == <<\HFF, \H1F, 0, 0, 0, 0, 0, 0>>

\* the low word of mtime at that fetch when the program has no third word
\* (opcode 0x7F), and the high words the runs give mtime
NoThird    == <<\HFF, \HFF, \HFF, \H0F>>
MtimeHighs == { Zero(4), <<\HFF, \HFF, \HFF, \HFF>> }

Third(prog) == IF Len(prog) >= 3 THEN prog[3] ELSE NoThird

\* does mtime reach mtimecmp within the next k ticks (mtime + j >= mtimecmp
\* for some j in 1..k, mtime + j taken modulo 2^64)
DueWithin(mtime, k, mtimecmp) ==
    IF ULt(WAdd(mtime, k), mtime) /\ mtime # [i \in 1..8 |-> \HFF] THEN TRUE
    ELSE UGe(WAdd(mtime, k), mtimecmp)

\* write the bytes of val at addr, addr + 1, ... with write8
RECURSIVE Write8Seq(_, _, _, _)
Write8Seq(b, addr, val, k) ==
    IF k > Len(val) THEN b
    ELSE Write8Seq(Bus_write8(b, WAdd(addr, Nat2W(k - 1, 4)), val[k]).val, addr, val, k + 1)

\* the bus and the hart at the end of the climb
Climbed(prog, hi, drv) ==
    LET t   == WSub(Third(prog) \o hi, TicksToThird)
        m0  == WSub(t, ClimbTicks)
        b0  == Write8Seq(Write8Seq(Write8Seq(Bus_new, WAdd(CLINT_LO, MTIME_LO), m0, 1),
                                   WAdd(CLINT_LO, MTIMECMP_LO), prog[1] \o prog[2], 1),
                         WAdd(CLINT_LO, MSIP_LO), <<drv.msip>>, 1)
        pend == IF DueWithin(m0, ClimbTicks, b0.clint.mtimecmp)
                THEN BOr(b0.clint.msip, MTIP) ELSE b0.clint.msip
    IN  [bus |-> [b0 EXCEPT !.clint.mtime = t, !.clint.msip = pend],
         cpu |-> [Cpu_new EXCEPT !.xr[10] = drv.a0, !.pc = ClimbPc, !.mip = pend]]

\* the bus at reset with the three words of Program3 stored from address 0
Loaded3 ==
    LET b1 == Bus_write32(Bus_new, Nat2W(0, 4), Program3[1]).val
        b2 == Bus_write32(b1, Nat2W(4, 4), Program3[2]).val
    IN  Bus_write32(b2, Nat2W(8, 4), Program3[3]).val

NoFetch == [ir |-> Zero(4), fetched |-> FALSE, x0 |-> Zero(4), at |-> Zero(4)]

InitCpu ==
    /\ overflow_checks \in BOOLEAN
    /\ cnt = [ticks |-> 0, oks |-> 0, climbs |-> 0]
    /\ last = NoFetch
    /\ \/ /\ inp = [boot |-> "reset", prog |-> Program3]
          /\ cpu = Cpu_new
          /\ bus = Loaded3
          /\ res = "new"
       \/ \E prog \in Programs, hi \in MtimeHighs, drv \in Drivers :
            /\ inp = [boot |-> "climb", prog |-> prog]
            /\ cpu = Climbed(prog, hi, drv).cpu
            /\ bus = Climbed(prog, hi, drv).bus
            /\ res = "err"

\* the state after a tick with outcome r
TickReturns(r) ==
    /\ cpu' = r.cpu
    /\ bus' = r.bus
    /\ res' = r.st
    /\ last' = [ir |-> r.ir, fetched |-> r.fetched, x0 |-> cpu.xr[0],
                at |-> WAdd(check_interrupt(cpu, Bus_tick(bus)).pc, Nat2W(4, 4))]
    /\ cnt' = [cnt EXCEPT !.ticks = @ + 1, !.oks = @ + (IF r.st = "ok" THEN 1 ELSE 0)]

\* cpu.tick()
DoCpuTick ==
    /\ res # "panic"
    /\ cnt.ticks < MaxCpuTicks
    /\ TickReturns(Cpu_tick(cpu, bus))
    /\ UNCHANGED <<overflow_checks, inp>>

\* the StretchTicks calls of cpu.tick() that take the pc from the high word
\* of mtimecmp to the word before mtime, with interrupts disabled: each
\* fetches a word of the timer window that no register backs, reads 0 and
\* returns the decode error
DoCpuClimb ==
    /\ res # "panic"
    /\ cnt.climbs = 0
    /\ cpu.pc = StretchFrom
    /\ BAnd(cpu.mstatus, Nat2W(8, 4)) = Zero(4)
    /\ LET pend == IF DueWithin(bus.clint.mtime, StretchTicks, bus.clint.mtimecmp)
                   THEN BOr(bus.clint.msip, MTIP) ELSE bus.clint.msip
       IN  /\ bus' = [bus EXCEPT !.clint.mtime = WAdd(@, StretchTicks), !.clint.msip = pend]
           /\ cpu' = [cpu EXCEPT !.pc = StretchPc, !.mip = BOr(@, pend)]
    /\ res' = "err"
    /\ last' = [ir |-> Zero(4), fetched |-> TRUE, x0 |-> cpu.xr[0], at |-> StretchPc]
    /\ cnt' = [cnt EXCEPT !.climbs = 1]
    /\ UNCHANGED <<overflow_checks, inp>>

NextCpu ==
    \/ DoCpuTick
    \/ DoCpuClimb

SpecCpu == InitCpu /\ [][NextCpu]_vars

\* the calls of tick() among the steps
Ticked == cnt'.ticks = cnt.ticks + 1

---------------------------------------------------------------------------
(* Claims about the hart                                                   *)

\* C1: from reset, with ADDI x1,x0,5; ADDI x2,x0,7; ADD x3,x1,x2 stored at
\* word addresses 0, 4 and 8, three ticks all succeed and leave x3 = 12.
C1_EndToEnd ==
    (inp.boot = "reset" /\ cnt.ticks = 3) => (cnt.oks = 3 /\ cpu.xr[3] = Nat2W(12, 4))

\* the hart with register 0 holding 0
ZeroX0(c) == [c EXCEPT !.xr[0] = Zero(4)]

\* C2: whatever earlier instructions stored in register 0, an instruction
\* that reads register 0 as an operand reads 0: a tick has the outcome it has
\* from the state where register 0 holds 0 (register 0 itself aside), and an
\* ADD or SUB with rs2 = 0 leaves in rd the value of its rs1 operand.
C2_X0ReadsZero ==
    [][Ticked =>
        LET r  == Cpu_tick(ZeroX0(cpu), bus)
            ir == last'.ir
            rd == Field(ir, 7, 5)
            rs1 == Field(ir, 15, 5)
        IN  /\ res' = r.st
            /\ bus' = r.bus
            /\ ZeroX0(cpu') = ZeroX0(r.cpu)
            /\ (res' = "ok" /\ (ir = ADD(rd, rs1, 0) \/ ir = SUB(rd, rs1, 0)))
                  => cpu'.xr[rd] = (IF rs1 = 0 THEN Zero(4) ELSE cpu.xr[rs1])]_vars

\* register 0 held 5 when ADD x3,x0,x0 ran, and x3 is 0
C2_Witness ==
    /\ res = "ok"
    /\ last.ir = ADD(3, 0, 0)
    /\ last.x0 = Nat2W(5, 4)
    /\ cpu.xr[0] = Nat2W(5, 4)
    /\ cpu.xr[3] = Zero(4)

\* the words some arm of do_mnemonic and of the category's match accepts
Recognised(ir) ==
    LET opecode == Field(ir, 0, 7)
        f3 == Field(ir, 12, 3)
        f7 == Field(ir, 25, 7)
        f5 == Field(ir, 27, 5)
    IN  CASE opecode = \H03 -> f3 \in {0, 1, 2, 4, 5}
          [] opecode = \H23 -> f3 \in {0, 1, 2}
          [] opecode = \H63 -> f3 \in {0, 1, 4, 5, 6, 7}
          [] opecode = \H0F -> f3 \in {0, 1}
          [] opecode = \H2F -> f5 \in {0, 1, 2, 3, 4, 8, 12, 16, 20, 24, 28}
          [] opecode = \H13 -> \/ f3 \in {0, 2, 3, 4, 6, 7}
                               \/ f3 = 1 /\ f7 = 0
                               \/ f3 = 5 /\ f7 \in {0, 16}
          [] opecode = \H33 -> f7 \in {0, 1} \/ (f7 = 32 /\ f3 \in {0, 5})
          [] opecode = \H73 -> f3 \in {1, 2, 3, 5, 6, 7}
          [] opecode \in {\H67, \H6F, \H17, \H37} -> TRUE
          [] OTHER -> FALSE

\* C3: a tick that fetches a word with an unrecognised opcode, or with an
\* unrecognised funct3/funct7/funct5 combination within its category,
\* returns the decode error, and every general register and every RAM byte
\* keeps its value.
C3_DecodeErrorKeepsRegsAndRam ==
    [][(Ticked /\ last'.fetched /\ ~Recognised(last'.ir)) =>
          /\ res' = "err"
          /\ cpu'.xr = cpu.xr
          /\ bus'.ram = bus.ram]_vars

\* an OP word with an unknown funct7 was fetched after register 0 and a0
\* were given values, and the tick returned the error
C3_Witness ==
    /\ res = "err"
    /\ last.fetched
    /\ last.ir = EncR(2, 11, 10, 0, 5, \H33)
    /\ cpu.xr[0] # Zero(4)
    /\ cpu.xr[10] # Zero(4)
    /\ cpu.xr[5] = Zero(4)

\* C4: a tick that returns a decode error leaves the whole machine state
\* (pc, CSRs, general registers, RAM, msip, mtimecmp, mtime) as it was.
C4_DecodeErrorAtomic ==
    [][(Ticked /\ res' = "err") => (cpu' = cpu /\ bus' = bus)]_vars

\* the word is a byte store
IsSB(ir) == Field(ir, 0, 7) = \H23 /\ Field(ir, 12, 3) = 0

C12_StoreWitness ==
    /\ res = "ok"
    /\ last.ir = SB(10, 10, 1)
    /\ cpu.xr[10] = WAdd(CLINT_LO, MTIME_LO)
    /\ bus.clint.mtime[2] = \HF8

\* the word at the address of mtime was loaded: the load saw the advanced value
C12_LoadWitness ==
    /\ res = "ok"
    /\ last.ir = LW(5, 10, 0)
    /\ cpu.xr[10] = WAdd(CLINT_LO, MTIME_LO)
    /\ cpu.xr[5] = SubSeq(bus.clint.mtime, 1, 4)

\* the interrupt evaluation of the coming tick: mip with msip OR-ed into it
\* after the timer advanced, and whether the trap is due
MipAtTick == BOr(cpu.mip, Bus_tick(bus).clint.msip)
TrapDue ==
    /\ BAnd(cpu.mstatus, Nat2W(8, 4)) # Zero(4)
    /\ Bit80(BAnd(cpu.mie, MipAtTick))

\* the hart as the interrupt evaluation of the coming tick leaves it
Evaluated == check_interrupt(cpu, Bus_tick(bus))

\* C13: in a tick, once msip is OR-ed into mip, the trap is entered exactly
\* when bit 3 of mstatus is set and mie & mip has bit 0x80; otherwise the
\* interrupt evaluation changes nothing but mip, so mepc, mcause, mtval,
\* mstatus and pc keep their values.  The tick then fetches at the pc the
\* evaluation left, plus 4.
C13_TrapIffEnabledAndPending ==
    [][Ticked =>
         /\ Evaluated.mip = MipAtTick
         /\ TrapDue => (Evaluated.pc = cpu.mtvec /\ Evaluated.mcause = <<\H07, 0, 0, \H80>>)
         /\ ~TrapDue => Evaluated = [cpu EXCEPT !.mip = MipAtTick]
         /\ res' = "err" => cpu' = [Evaluated EXCEPT !.pc = WAdd(Evaluated.pc, Nat2W(4, 4))]]_vars

\* the trap was entered from the high word of mtimecmp, with mtvec = 0
C13_Witness ==
    /\ res = "err"
    /\ cpu.mcause = <<\H07, 0, 0, \H80>>
    /\ cpu.mepc = StretchFrom
    /\ cpu.pc = Nat2W(4, 4)
    /\ Bit80(BAnd(cpu.mie, cpu.mip))

\* interrupts were enabled and only bit 0x08 was pending: no trap
C13_OtherBitWitness ==
    /\ res = "err"
    /\ cnt.ticks = 3
    /\ BAnd(cpu.mstatus, Nat2W(8, 4)) # Zero(4)
    /\ BAnd(cpu.mie, cpu.mip) = Nat2W(8, 4)
    /\ cpu.mcause = Zero(4)

\* C14: on trap entry mtval becomes 0, mepc the pc held just before the
\* trap, mcause 0x8000_0007, pc the value of mtvec, and the recorded
\* previous mode Machine.
C14_TrapEntryState ==
    [][(Ticked /\ TrapDue) =>
         /\ Evaluated.mtval = Zero(4)
         /\ Evaluated.mepc = cpu.pc
         /\ Evaluated.mcause = <<\H07, 0, 0, \H80>>
         /\ Evaluated.pc = cpu.mtvec
         /\ Evaluated.prev_mode = Machine
         /\ res' = "err" =>
              /\ cpu'.mtval = Zero(4)
              /\ cpu'.mepc = cpu.pc
              /\ cpu'.mcause = <<\H07, 0, 0, \H80>>
              /\ cpu'.pc = WAdd(cpu.mtvec, Nat2W(4, 4))
              /\ cpu'.prev_mode = Machine]_vars

\* the trap was entered after the third instruction, fetched from mtime,
\* with mtvec = 0x88
C14_Witness ==
    /\ res = "err"
    /\ cnt.climbs = 1
    /\ cpu.mtvec = Nat2W(\H88, 4)
    /\ cpu.mepc = WAdd(CLINT_LO, MTIME_LO)
    /\ cpu.pc = Nat2W(\H8C, 4)
    /\ cpu.mcause = <<\H07, 0, 0, \H80>>
    /\ cpu.mtval = Zero(4)
    /\ cpu.prev_mode = Machine

\* 32-bit values as pairs <<high half, low half>> of numbers below 2^16,
\* and the arithmetic of the integers modulo 2^32 on them
Halves(w) == <<w[3] + 256 * w[4], w[1] + 256 * w[2]>>
RefAdd(p, q) == <<(p[1] + q[1] + ((p[2] + q[2]) \div 65536)) % 65536, (p[2] + q[2]) % 65536>>
RefNeg(p) == RefAdd(<<65535 - p[1], 65535 - p[2]>>, <<0, 1>>)
RefSub(p, q) == RefAdd(p, RefNeg(q))

\* the product of two numbers below 2^16 as a pair of halves, through the
\* two products with a byte of v (each below 2^24)
RefMul16(u, v) ==
    <<((u * (v % 256) + ((u * (v \div 256)) % 256) * 256) \div 65536) + ((u * (v \div 256)) \div 256),
      (u * (v % 256) + ((u * (v \div 256)) % 256) * 256) % 65536>>

\* the sum of the second column of the four partial products of p and q
RefColumn1(p, q) == RefMul16(p[2], q[2])[1] + RefMul16(p[2], q[1])[2] + RefMul16(p[1], q[2])[2]

\* p * q modulo 2^32, for p and q unsigned
RefTimes(p, q) == <<RefColumn1(p, q) % 65536, RefMul16(p[2], q[2])[2]>>

\* the low 32 bits of the product of p and q read as signed numbers
RefAbs(p) == IF p[1] >= 32768 THEN RefNeg(p) ELSE p
RefMul(p, q) ==
    IF (p[1] >= 32768) # (q[1] >= 32768) THEN RefNeg(RefTimes(RefAbs(p), RefAbs(q)))
    ELSE RefTimes(RefAbs(p), RefAbs(q))

\* the value register i holds as an operand before the tick's instruction
Operand(i) == IF i = 0 THEN <<0, 0>> ELSE Halves(cpu.xr[i])

\* C15: for 32-bit register values a and b (what rs1 and rs2 held before the
\* instruction), ADD leaves (a + b) mod 2^32 in rd, SUB (a - b) mod 2^32 and
\* MUL the low 32 bits of the signed product, and none of them fails when
\* the result overflows.
C15_AddSubMulWrap ==
    [][(Ticked /\ last'.fetched) =>
         LET ir  == last'.ir
             rd  == Field(ir, 7, 5)
             rs1 == Field(ir, 15, 5)
             rs2 == Field(ir, 20, 5)
         IN  /\ ir = ADD(rd, rs1, rs2) =>
                  (res' = "ok" /\ Halves(cpu'.xr[rd]) = RefAdd(Operand(rs1), Operand(rs2)))
             /\ ir = SUB(rd, rs1, rs2) =>
                  (res' = "ok" /\ Halves(cpu'.xr[rd]) = RefSub(Operand(rs1), Operand(rs2)))
             /\ ir = MulDiv(0, rd, rs1, rs2) =>
                  (res' = "ok" /\ Halves(cpu'.xr[rd]) = RefMul(Operand(rs1), Operand(rs2)))]_vars

\* ADD x10,x10,x10 ran with a0 = 0x7FFF_FFFF: the signed sum overflowed and
\* a0 holds 0xFFFF_FFFE
C15_Witness ==
    /\ res = "ok"
    /\ last.ir = ADD(10, 10, 10)
    /\ cnt.ticks = 1
    /\ cpu.xr[10] = <<\HFE, \HFF, \HFF, \HFF>>

\* MUL x10,x5,x10 ran with x5 = 0x8000_0000 and a0 = 0x7FFF_FFFF: the low
\* word of the product is 0x8000_0000
C15_MulWitness ==
    /\ res = "ok"
    /\ last.ir = MulDiv(0, 10, 5, 10)
    /\ cpu.xr[5] = <<0, 0, 0, \H80>>
    /\ cpu.xr[10] = <<0, 0, 0, \H80>>
    /\ inp.prog[1] = LUI(5, 524288)
    /\ cpu.mip = Zero(4)

\* the word register i holds as an operand before the tick's instruction
OperandWord(i) == IF i = 0 THEN Zero(4) ELSE cpu.xr[i]

\* C16: DIV, DIVU, REM and REMU never fail.  With divisor 0, DIV and DIVU
\* leave 0xFFFF_FFFF in rd and REM and REMU leave the dividend; for
\* 0x8000_0000 divided by -1, DIV leaves 0x8000_0000 and REM leaves 0.
C16_DivRemSpecialCases ==
    [][(Ticked /\ last'.fetched) =>
         LET ir  == last'.ir
             rd  == Field(ir, 7, 5)
             rs1 == Field(ir, 15, 5)
             rs2 == Field(ir, 20, 5)
             f3  == Field(ir, 12, 3)
             a   == OperandWord(rs1)
             b   == OperandWord(rs2)
         IN  (f3 \in DivFuncts /\ ir = MulDiv(f3, rd, rs1, rs2)) =>
               /\ res' = "ok"
               /\ (b = Zero(4) /\ f3 \in {4, 5}) => cpu'.xr[rd] = <<\HFF, \HFF, \HFF, \HFF>>
               /\ (b = Zero(4) /\ f3 \in {6, 7}) => cpu'.xr[rd] = a
               /\ (a = <<0, 0, 0, \H80>> /\ b = <<\HFF, \HFF, \HFF, \HFF>> /\ f3 = 4)
                     => cpu'.xr[rd] = <<0, 0, 0, \H80>>
               /\ (a = <<0, 0, 0, \H80>> /\ b = <<\HFF, \HFF, \HFF, \HFF>> /\ f3 = 6)
                     => cpu'.xr[rd] = Zero(4)]_vars

\* the CSR a number names
CsrName(no) ==
    CASE no = 768 -> "mstatus" [] no = 772 -> "mie"    [] no = 773 -> "mtvec"
      [] no = 832 -> "mscratch" [] no = 833 -> "mepc"  [] no = 834 -> "mcause"
      [] no = 835 -> "mtval"   [] no = 836 -> "mip"

\* C17: for each of the eight CSRs and all rd and rs1, rd = rs1 included,
\* CSRRW leaves in rd the value the CSR had before the instruction and in
\* the CSR the value rs1 had before the instruction.
C17_CsrrwSwaps ==
    [][(Ticked /\ last'.fetched) =>
         LET ir  == last'.ir
             rd  == Field(ir, 7, 5)
             rs1 == Field(ir, 15, 5)
             no  == Field(ir, 20, 12)
         IN  (no \in CsrNumbers /\ ir = CSRRW(rd, no, rs1)) =>
               /\ res' = "ok"
               /\ cpu'.xr[rd] = Evaluated[CsrName(no)]
               /\ cpu'[CsrName(no)] = OperandWord(rs1)]_vars

\* CSRRW x10,mip,x10 ran with a0 = 0x7FFF_FFFF while the timer bit was
\* pending: a0 holds 0x80 and mip holds 0x7FFF_FFFF
C17_Witness ==
    /\ res = "ok"
    /\ last.ir = CSRRW(10, 836, 10)
    /\ cpu.xr[10] = Nat2W(\H80, 4)
    /\ cpu.mip = <<\HFF, \HFF, \HFF, \H7F>>

\* C18: CSRRS and CSRRSI leave old | operand in the CSR, CSRRC and CSRRCI
\* leave old & ~operand, and all four leave the old value of the CSR in rd;
\* the operand is the value of rs1, or the 5-bit immediate zero-extended.
C18_CsrSetClear ==
    [][(Ticked /\ last'.fetched) =>
         LET ir  == last'.ir
             rd  == Field(ir, 7, 5)
             rs1 == Field(ir, 15, 5)
             no  == Field(ir, 20, 12)
             f3  == Field(ir, 12, 3)
             old == Evaluated[CsrName(no)]
             operand == IF f3 \in {2, 3} THEN OperandWord(rs1) ELSE Nat2W(rs1, 4)
         IN  (no \in CsrNumbers /\ f3 \in {2, 3, 6, 7} /\ ir = EncI(no, rs1, f3, rd, \H73)) =>
               /\ res' = "ok"
               /\ cpu'.xr[rd] = old
               /\ cpu'[CsrName(no)] = (IF f3 \in {2, 6} THEN BOr(old, operand)
                                       ELSE BAnd(old, BNot(operand)))]_vars

\* the address the coming tick fetches from
FetchPc == WAdd(Evaluated.pc, Nat2W(4, 4))

\* unsigned and signed less-than on pairs of halves
RefULt(p, q) == p[1] < q[1] \/ (p[1] = q[1] /\ p[2] < q[2])
RefSigned(p) == <<IF p[1] >= 32768 THEN p[1] - 65536 ELSE p[1], p[2]>>
RefSLt(p, q) == RefULt(RefSigned(p), RefSigned(q))

\* the comparator of the branch with funct3 f3, on the values a and b
Comparator(f3, a, b) ==
    CASE f3 = 0 -> a = b
      [] f3 = 1 -> a # b
      [] f3 = 4 -> RefSLt(a, b)
      [] f3 = 5 -> ~RefSLt(a, b)
      [] f3 = 6 -> RefULt(a, b)
      [] f3 = 7 -> ~RefULt(a, b)

\* C19: for every pair of register values, a branch redirects pc (by the
\* offset the decoder hands it) exactly when its comparator is true, and
\* otherwise leaves pc as the fetch left it: BEQ on equality, BNE on
\* inequality, BLT/BGE on signed and BLTU/BGEU on unsigned less-than /
\* greater-or-equal.
C19_BranchTakenIffComparator ==
    [][(Ticked /\ last'.fetched) =>
         LET ir  == last'.ir
             f3  == Field(ir, 12, 3)
             rs1 == Field(ir, 15, 5)
             rs2 == Field(ir, 20, 5)
         IN  (Field(ir, 0, 7) = \H63 /\ f3 \in BranchFuncts) =>
               /\ res' = "ok"
               /\ cpu'.pc = (IF Comparator(f3, Operand(rs1), Operand(rs2))
                             THEN WAdd(FetchPc, SExt(Inst_from_b(ir).imm12, 4))
                             ELSE FetchPc)]_vars

\* BLT x5,x10 with offset 8 ran at the high word of mtimecmp with
\* x5 = 0x8000_0000 and a0 = 0x80, and pc went 8 further
C19_Witness ==
    /\ res = "ok"
    /\ last.ir = EncB(8, 10, 5, 4)
    /\ cpu.xr[5] = <<0, 0, 0, \H80>>
    /\ cpu.xr[10] = Nat2W(\H80, 4)
    /\ cpu.pc = WAdd(StretchFrom, Nat2W(8, 4))

\* BLTU with the same operands left pc where the fetch put it
C19_NotTakenWitness ==
    /\ res = "ok"
    /\ last.ir = EncB(8, 10, 5, 6)
    /\ cpu.xr[5] = <<0, 0, 0, \H80>>
    /\ cpu.xr[10] = Nat2W(\H80, 4)
    /\ cpu.pc = StretchFrom

\* the jump offset of a J-format word, sign-extended, as a pair of halves
JOffset(ir) ==
    <<Field(ir, 16, 4) + (IF Field(ir, 31, 1) = 1 THEN 65520 ELSE 0),
      Field(ir, 21, 10) * 2 + Field(ir, 20, 1) * 2048 + Field(ir, 12, 4) * 4096>>

\* C20: JAL leaves pc + 4 in rd and sets pc to pc plus the sign-extended
\* offset rebuilt from the J-format bits imm[20|10:1|11|19:12] of the word,
\* for backward as well as forward jumps.
C20_JalSignExtendedOffset ==
    [][(Ticked /\ last'.fetched /\ Field(last'.ir, 0, 7) = \H6F) =>
         /\ res' = "ok"
         /\ Halves(cpu'.xr[Field(last'.ir, 7, 5)]) = RefAdd(Halves(FetchPc), <<0, 4>>)
         /\ Halves(cpu'.pc) = RefAdd(Halves(FetchPc), JOffset(last'.ir))]_vars

\* for forward jumps the code does what C20 says: JAL x1 with offset 8 ran
\* at mtimecmp
C20_ForwardJump ==
    /\ res = "ok"
    /\ last.ir = EncJ(8, 1)
    /\ cpu.xr[1] = StretchFrom
    /\ cpu.pc = WAdd(WAdd(CLINT_LO, MTIMECMP_LO), Nat2W(8, 4))

\* a 12-bit immediate sign-extended, as a pair of halves
RefImm12(imm) == IF imm >= 2048 THEN <<65535, 61440 + imm>> ELSE <<0, imm>>

\* C21: JALR leaves pc + 4 in rd and sets pc to the value rs1 held before
\* the instruction plus the sign-extended 12-bit immediate of the word,
\* modulo 2^32, for every immediate and also when rd = rs1.
C21_JalrBasePlusImmediate ==
    [][(Ticked /\ last'.fetched) =>
         LET ir  == last'.ir
             rd  == Field(ir, 7, 5)
             rs1 == Field(ir, 15, 5)
             imm == Field(ir, 20, 12)
         IN  ir = JALR(rd, rs1, imm) =>
               /\ res' = "ok"
               /\ Halves(cpu'.xr[rd]) = RefAdd(Halves(FetchPc), <<0, 4>>)
               /\ Halves(cpu'.pc) = RefAdd(Operand(rs1), RefImm12(imm))]_vars

\* with immediate 0 the code does what C21 says, rd = rs1 included:
\* JALR x10,0(x10) ran at mtimecmp with a0 = 0x88
C21_ZeroImmediate ==
    /\ res = "ok"
    /\ last.ir = JALR(10, 10, 0)
    /\ cpu.pc = Nat2W(\H88, 4)
    /\ cpu.xr[10] = StretchFrom

\* the sum of the third column of the four partial products of p and q,
\* with the carry of the second
RefColumn2(p, q) ==
    RefMul16(p[2], q[1])[1] + RefMul16(p[1], q[2])[1] + RefMul16(p[1], q[1])[2]
        + (RefColumn1(p, q) \div 65536)

\* the high word of the product of p and q, both unsigned
RefMulHighU(p, q) ==
    <<(RefMul16(p[1], q[1])[1] + (RefColumn2(p, q) \div 65536)) % 65536,
      RefColumn2(p, q) % 65536>>

\* the high word of the product with p signed (q unsigned), and with both
\* signed: a negative operand stands for its unsigned value less 2^32
RefMulHighSU(p, q) ==
    IF p[1] >= 32768 THEN RefSub(RefMulHighU(p, q), q) ELSE RefMulHighU(p, q)
RefMulHighS(p, q) ==
    IF q[1] >= 32768 THEN RefSub(RefMulHighSU(p, q), p) ELSE RefMulHighSU(p, q)

\* C23: for all register values a and b, MULH leaves in rd the high 32 bits
\* of the 64-bit product of a and b both signed, MULHSU the high 32 bits
\* with a signed and b unsigned, and MULHU the high 32 bits with both
\* unsigned.
C23_MulHighSignedness ==
    [][(Ticked /\ last'.fetched) =>
         LET ir  == last'.ir
             rd  == Field(ir, 7, 5)
             rs1 == Field(ir, 15, 5)
             rs2 == Field(ir, 20, 5)
             f3  == Field(ir, 12, 3)
         IN  (f3 \in {1, 2, 3} /\ ir = MulDiv(f3, rd, rs1, rs2)) =>
               /\ res' = "ok"
               /\ Halves(cpu'.xr[rd]) =
                    (CASE f3 = 1 -> RefMulHighS(Operand(rs1), Operand(rs2))
                       [] f3 = 2 -> RefMulHighSU(Operand(rs1), Operand(rs2))
                       [] f3 = 3 -> RefMulHighU(Operand(rs1), Operand(rs2)))]_vars

\* MULHU does what C23 says: 0xFFFF_FFFF times 0x7FFF_FFFF has the high
\* word 0x7FFF_FFFE
C23_UnsignedHigh ==
    /\ res = "ok"
    /\ last.ir = MulDiv(3, 6, 5, 10)
    /\ cpu.xr[5] = <<\HFF, \HFF, \HFF, \HFF>>
    /\ cpu.xr[10] = <<\HFF, \HFF, \HFF, \H7F>>
    /\ cpu.xr[6] = <<\HFE, \HFF, \HFF, \H7F>>

\* the value the OP instruction with funct3 f3 (and funct7 f7, for the right
\* shifts) writes for the operands a and b
OpValue(f3, f7, a, b) ==
    CASE f3 = 0 -> WAdd(a, b)
      [] f3 = 1 -> Shl(a, Field(b, 0, 5))
      [] f3 = 2 -> Bool32(SLt(a, b))
      [] f3 = 3 -> Bool32(ULt(a, b))
      [] f3 = 4 -> BXor(a, b)
      [] f3 = 5 -> IF f7 = 32 THEN Sar(a, Field(b, 0, 5)) ELSE Shr(a, Field(b, 0, 5))
      [] f3 = 6 -> BOr(a, b)
      [] f3 = 7 -> BAnd(a, b)

\* the OP-IMM words of RV32I: the shifts carry funct7 = 0, or 0100000 for SRAI
StandardOpImm(ir) ==
    /\ Field(ir, 0, 7) = \H13
    /\ Field(ir, 12, 3) = 1 => Field(ir, 25, 7) = 0
    /\ Field(ir, 12, 3) = 5 => Field(ir, 25, 7) \in {0, 32}

\* the second operand of an OP-IMM word: the shamt field for the shifts, the
\* sign-extended immediate for the others
OpImmOperand(ir) ==
    IF Field(ir, 12, 3) \in {1, 5} THEN Nat2W(Field(ir, 20, 5), 4)
    ELSE U32(RefImm12(Field(ir, 20, 12))[1], RefImm12(Field(ir, 20, 12))[2])

\* C24: every OP-IMM instruction in its standard encoding decodes and leaves
\* in rd what the corresponding OP instruction would with the immediate as
\* second operand: the sign-extended 12-bit immediate for ADDI, SLTI, SLTIU,
\* XORI, ORI and ANDI, the 5-bit shamt for SLLI, SRLI and SRAI (SRAI with
\* funct7 = 0100000).
C24_OpImmStandardEncodings ==
    [][(Ticked /\ last'.fetched /\ StandardOpImm(last'.ir)) =>
         /\ res' = "ok"
         /\ cpu'.xr[Field(last'.ir, 7, 5)] =
              OpValue(Field(last'.ir, 12, 3), Field(last'.ir, 25, 7),
                      OperandWord(Field(last'.ir, 15, 5)), OpImmOperand(last'.ir))]_vars

\* a pair of halves as a word
Word(p) == U32(p[1], p[2])

\* the S-format immediate of a word: bits 11:5 from bits 31:25 of the word,
\* bits 4:0 from bits 11:7
SImm(ir) == Field(ir, 25, 7) * 32 + Field(ir, 7, 5)

\* the bus after the store of the low n bytes of val to addr, following the
\* timer's advance
StoreTo(addr, val, n) ==
    CASE n = 1 -> Bus_write8(Bus_tick(bus), addr, val[1])
      [] n = 2 -> Bus_write16(Bus_tick(bus), addr, SubSeq(val, 1, 2))
      [] n = 4 -> Bus_write32(Bus_tick(bus), addr, val)

\* C25: SB, SH and SW store to (value of rs1) + (sign-extended 12-bit
\* S-format immediate) modulo 2^32; SB stores the low 8 bits of rs2, SH the
\* low 16 bits and SW all 32.
C25_StoreAddressAndWidth ==
    [][(Ticked /\ last'.fetched) =>
         LET ir  == last'.ir
             f3  == Field(ir, 12, 3)
             rs1 == Field(ir, 15, 5)
             rs2 == Field(ir, 20, 5)
             to  == StoreTo(Word(RefAdd(Operand(rs1), RefImm12(SImm(ir)))), OperandWord(rs2),
                            2 ^ f3)
         IN  (Field(ir, 0, 7) = \H23 /\ f3 \in {0, 1, 2} /\ to.ok) =>
                (res' = "ok" /\ bus' = to.val)]_vars

\* with an immediate below 32 the code does what C25 says: SB x10,7(x10)
\* with a0 = 0x1100_BFF8 stored 0xF8 in the top lane of mtime
C25_SmallImmediate ==
    /\ res = "ok"
    /\ last.ir = SB(10, 10, 7)
    /\ cpu.xr[10] = WAdd(CLINT_LO, MTIME_LO)
    /\ bus.clint.mtime[8] = \HF8

\* the branch offset of a B-format word, sign-extended, as a pair of halves:
\* imm[12] in bit 31, imm[10:5] in bits 30:25, imm[4:1] in bits 11:8 and
\* imm[11] in bit 7
BOffset(ir) ==
    LET low == Field(ir, 8, 4) * 2 + Field(ir, 25, 6) * 32 + Field(ir, 7, 1) * 2048
    IN  IF Field(ir, 31, 1) = 1 THEN <<65535, 61440 + low>> ELSE <<0, low>>

\* C26: when a branch is taken, pc changes by the sign-extended offset the
\* word encodes in the B-format layout, for backward as well as forward
\* branches.
C26_TakenBranchOffset ==
    [][(Ticked /\ last'.fetched) =>
         LET ir  == last'.ir
             f3  == Field(ir, 12, 3)
         IN  (/\ Field(ir, 0, 7) = \H63
              /\ f3 \in BranchFuncts
              /\ Comparator(f3, Operand(Field(ir, 15, 5)), Operand(Field(ir, 20, 5)))) =>
                Halves(cpu'.pc) = RefAdd(Halves(FetchPc), BOffset(ir))]_vars

\* a backward branch by 8 does what C26 says: BGE x5,x10 with x5 = a0 ran
\* at the high word of mtimecmp and pc went 8 back
C26_BackwardBranch ==
    /\ res = "ok"
    /\ last.ir = EncB(8192 - 8, 10, 5, 5)
    /\ cpu.pc = WSub(StretchFrom, Nat2W(8, 4))

\* funct5 of AMOADD, AMOSWAP, AMOXOR, AMOOR, AMOAND, AMOMIN, AMOMAX, AMOMINU
\* and AMOMAXU
AmoFuncts == {0, 1, 4, 8, 12, 16, 20, 24, 28}

\* what the read-modify-write with funct5 f5 stores for the memory word a
\* and the register value b
AmoValue(f5, a, b) ==
    CASE f5 = 0  -> WAdd(a, b)
      [] f5 = 1  -> b
      [] f5 = 4  -> BXor(a, b)
      [] f5 = 8  -> BOr(a, b)
      [] f5 = 12 -> BAnd(a, b)
      [] f5 = 16 -> IF SLt(a, b) THEN a ELSE b
      [] f5 = 20 -> IF SLt(a, b) THEN b ELSE a
      [] f5 = 24 -> IF ULt(a, b) THEN a ELSE b
      [] f5 = 28 -> IF ULt(a, b) THEN b ELSE a

\* the word at a RAM address: the four bytes of the RAM array from the
\* address's offset in the RAM window
RamWord(b, addr) == [k \in 1..4 |-> RamGet(b.ram, Low16(addr) + k - 1)]

\* C27: for each read-modify-write on a word address in RAM held in rs1,
\* after the instruction rd holds the word that was in memory before it and
\* the memory word holds op(old word, value of rs2 before the instruction),
\* also when rd is rs1 or rs2.
C27_AmoReadModifyWrite ==
    [][(Ticked /\ last'.fetched) =>
         LET ir   == last'.ir
             f5   == Field(ir, 27, 5)
             rd   == Field(ir, 7, 5)
             addr == OperandWord(Field(ir, 15, 5))
             old  == RamWord(bus, addr)
         IN  (/\ Field(ir, 0, 7) = \H2F
              /\ Field(ir, 12, 3) = 2
              /\ f5 \in AmoFuncts
              /\ InRange(addr, RAM_LO, WSub(RAM_HI, Nat2W(3, 4)))) =>
                /\ res' = "ok"
                /\ cpu'.xr[rd] = old
                /\ RamWord(bus', addr) = AmoValue(f5, old, OperandWord(Field(ir, 20, 5)))]_vars

\* the last tick executed a jump: JAL, JALR, or a branch that moved pc away
\* from its own address; pc then holds the target it computed
Jumped ==
    /\ res = "ok"
    /\ last.fetched
    /\ \/ Field(last.ir, 0, 7) \in {\H6F, \H67}
       \/ Field(last.ir, 0, 7) = \H63 /\ cpu.pc # last.at

\* C28: when a tick executes JAL, JALR or a taken branch and computes the
\* target T, the next tick, if no trap comes in between, executes the word
\* stored at T.
C28_NextInstructionAtTarget ==
    [][(Ticked /\ Jumped /\ ~TrapDue) =>
          /\ last'.fetched
          /\ last'.ir = Bus_read32(Bus_tick(bus), cpu.pc).val]_vars

\* bit 3 (global machine interrupt enable) of a u32
Bit3(w) == And8(w[1], 8) = 8

\* the word is a CSR instruction on the CSR with the number no
WritesCsr(ir, no) ==
    /\ Field(ir, 0, 7) = \H73
    /\ Field(ir, 12, 3) \in {1, 2, 3, 5, 6, 7}
    /\ Field(ir, 20, 12) = no

\* C29: trap entry leaves bit 3 of mstatus clear, and while the bit is
\* clear no tick enters the trap; the bit is set again only by an
\* instruction that writes mstatus.
C29_NoTrapUntilReenabled ==
    [][/\ (Ticked /\ TrapDue) => ~Bit3(Evaluated.mstatus)
       /\ (Ticked /\ ~Bit3(cpu.mstatus)) => Evaluated = [cpu EXCEPT !.mip = MipAtTick]
       /\ (Ticked /\ ~Bit3(Evaluated.mstatus) /\ Bit3(cpu'.mstatus)) =>
             (res' = "ok" /\ WritesCsr(last'.ir, 768))
       /\ ~Ticked => cpu'.mstatus = cpu.mstatus]_vars

\* the trap was entered from the high word of mtimecmp with mtvec = 0, and
\* the tick after it, with the timer bit still pending and enabled in mie,
\* went on to address 8 instead of entering the trap again
C29_Witness ==
    /\ res = "err"
    /\ cpu.mcause = <<\H07, 0, 0, \H80>>
    /\ cpu.mepc = StretchFrom
    /\ cpu.pc = Nat2W(8, 4)
    /\ ~Bit3(cpu.mstatus)
    /\ Bit80(BAnd(cpu.mie, cpu.mip))

\* C30: once bit 0x80 of mip is set it stays set in every later tick until
\* an instruction writes CSR mip (0x344); a write to mtimecmp clears msip
\* but not the bit in mip.
C30_MipPendingSticks ==
    [][(Bit80(cpu.mip) /\ ~(Ticked /\ last'.fetched /\ WritesCsr(last'.ir, 836)))
          => Bit80(cpu'.mip)]_vars

\* SB x5,0(x5) wrote the low lane of mtimecmp while the bit was pending:
\* msip is 0 and, a tick later with mtime still below mtimecmp, mip keeps the
\* bit
C30_Witness ==
    /\ last.at = WAdd(StretchFrom, Nat2W(4, 4))
    /\ inp.prog[2] = SB(5, 5, 0)
    /\ cpu.xr[5] = WAdd(CLINT_LO, MTIMECMP_LO)
    /\ bus.clint.mtimecmp[1] = 0
    /\ bus.clint.msip = Zero(4)
    /\ Bit80(cpu.mip)

---------------------------------------------------------------------------
(* The timer deadline: the driver writes to mtimecmp two words that enable *)
(* the timer interrupt (bit 0x80 of mie from a0, bit 3 of mstatus) and     *)
(* gives mtime a value that is, when the pc reaches the low word of mtime, *)
(* a few ticks below mtimecmp.  The hart executes the two words, climbs    *)
(* with interrupts enabled through the words that read 0 up to mtime,      *)
(* fetches the low word of mtime as a third instruction and goes on        *)
(* ticking to the tick in which mtime reaches mtimecmp and past it.  The   *)
(* caller calls tick() again after every Ok and every Err.                 *)

MaxLead == 4

\* the ticks of a run: the two enabling words, the fetch from mtime, the
\* ticks up to the deadline and one past it
MaxDeadlineTicks == MaxLead + 4

\* the two enabling words, in either order
EnableWords ==
    { <<CSRRS(0, 772, 10), CSRRSI(0, 768, 8)>>, <<CSRRSI(0, 768, 8), CSRRS(0, 772, 10)>> }

\* mtimecmp = e[2]:e[1]; mtime is e[2]:(e[1] - d), d ticks below mtimecmp,
\* in the tick that fetches its low word.  e[1] - 4 is a JAL, e[1] - 1,
\* e[1] - 2 and e[1] - 3 have no opcode the hart knows.
DeadlinePrograms ==
    { <<e[1], e[2], WSub(e[1], Nat2W(d, 4))>> : e \in EnableWords, d \in 0..MaxLead }

InitDeadline ==
    /\ overflow_checks \in BOOLEAN
    /\ cnt = [ticks |-> 0, oks |-> 0, climbs |-> 0]
    /\ last = NoFetch
    /\ res = "err"
    /\ \E prog \in DeadlinePrograms, drv \in Drivers :
         /\ inp = [boot |-> "climb", prog |-> prog]
         /\ cpu = Climbed(prog, prog[2], drv).cpu
         /\ bus = Climbed(prog, prog[2], drv).bus

\* msip as the next StretchTicks timer ticks leave it
StretchMsip ==
    IF DueWithin(bus.clint.mtime, StretchTicks, bus.clint.mtimecmp)
    THEN BOr(bus.clint.msip, MTIP) ELSE bus.clint.msip

\* the hart is at the high word of mtimecmp and none of the next
\* StretchTicks ticks enters the trap: each fetches a word of the timer
\* window that no register backs, reads 0 and returns the decode error
StretchAhead ==
    /\ cnt.climbs = 0
    /\ cpu.pc = StretchFrom
    /\ ~(Bit3(cpu.mstatus) /\ Bit80(BAnd(cpu.mie, BOr(cpu.mip, StretchMsip))))

\* cpu.tick(), one call
DoDeadlineTick ==
    /\ res # "panic"
    /\ cnt.ticks < MaxDeadlineTicks
    /\ ~StretchAhead
    /\ TickReturns(Cpu_tick(cpu, bus))
    /\ UNCHANGED <<overflow_checks, inp>>

\* cpu.tick(), StretchTicks calls: from the high word of mtimecmp to the
\* word before mtime
DoDeadlineStretch ==
    /\ res # "panic"
    /\ StretchAhead
    /\ bus' = [bus EXCEPT !.clint.mtime = WAdd(@, StretchTicks), !.clint.msip = StretchMsip]
    /\ cpu' = [cpu EXCEPT !.pc = StretchPc, !.mip = BOr(@, StretchMsip)]
    /\ res' = "err"
    /\ last' = [ir |-> Zero(4), fetched |-> TRUE, x0 |-> cpu.xr[0], at |-> StretchPc]
    /\ cnt' = [cnt EXCEPT !.climbs = 1]
    /\ UNCHANGED <<overflow_checks, inp>>

NextDeadline ==
    \/ DoDeadlineTick
    \/ DoDeadlineStretch

SpecDeadline == InitDeadline /\ [][NextDeadline]_vars

\* the timer interrupt is enabled and mtime is below mtimecmp
Armed ==
    /\ Bit3(cpu.mstatus)
    /\ Bit80(cpu.mie)
    /\ ULt(bus.clint.mtime, bus.clint.mtimecmp)

\* the coming tick is the one in which mtime reaches mtimecmp
Reaches == UGe(Bus_tick(bus).clint.mtime, bus.clint.mtimecmp)

\* mtime has reached mtimecmp
Due == UGe(bus.clint.mtime, bus.clint.mtimecmp)

\* the trap has been entered
Trapped == cpu.mcause = <<\H07, 0, 0, \H80>>

\* C31: with bit 3 of mstatus and bit 0x80 of mie set and mtime below
\* mtimecmp, the tick in which mtime reaches mtimecmp enters the trap
\* (mcause 0x8000_0007, pc := mtvec, the fetch at mtvec + 4), whatever the
\* ticks before it fetched; a tick before that one, with bit 0x80 neither
\* in mip nor in msip, does not enter it; so from any state so armed on,
\* mtimecmp - mtime ticks later and ever after, the trap has been entered.
C31_TrapAtDeadline ==
    /\ [][/\ (Ticked /\ Armed /\ Reaches) =>
                /\ Evaluated.mcause = <<\H07, 0, 0, \H80>>
                /\ Evaluated.pc = cpu.mtvec
                /\ Evaluated.mepc = cpu.pc
                /\ last'.at = WAdd(cpu.mtvec, Nat2W(4, 4))
                /\ res' = "err" => cpu' = [Evaluated EXCEPT !.pc = WAdd(cpu.mtvec, Nat2W(4, 4))]
          /\ (Ticked /\ Armed /\ ~Reaches /\ ~Bit80(BOr(cpu.mip, bus.clint.msip))) =>
                /\ Evaluated = [cpu EXCEPT !.mip = MipAtTick]
                /\ res' = "err" => cpu'.mcause = cpu.mcause]_vars
    /\ [](Armed => [](Due => Trapped))

\* mtime was 4 below mtimecmp when the hart fetched its low word, a JAL
\* that executed; the three ticks after it returned decode errors and the
\* fourth, in which mtime reached mtimecmp, entered the trap with mtvec = 0
C31_Witness ==
    /\ cnt = [ticks |-> 7, oks |-> 3, climbs |-> 1]
    /\ inp.prog[3] = WSub(inp.prog[1], Nat2W(4, 4))
    /\ Field(inp.prog[3], 0, 7) = \H6F
    /\ bus.clint.mtime = bus.clint.mtimecmp
    /\ Trapped
    /\ cpu.pc = Nat2W(4, 4)
    /\ ~Bit3(cpu.mstatus)

====
